---- MODULE Spec2Model ----
(***************************************************************************)
(* A model of the stock GRU demo: the plateau learning-rate controller and *)
(* the training loop of GRUModel (gru.js), the GRUModel life cycle         *)
(* (build / dispose / train / predict / evaluate) and the windowed dataset *)
(* construction of DataLoader (data-loader.js).                            *)
(*                                                                         *)
(* Numbers.  JavaScript numbers are modelled as integers in a fixed unit:  *)
(*   - learning rates in units of 1e-12 (so the 1e-12 tolerance of the     *)
(*     plateau controller is exactly one unit, 0.001 is 10^9 units);       *)
(*   - monitored losses in units of 5e-5 (so minDelta = 1e-4 is 2 units);  *)
(*   - factors in percent (0.5 is 50).                                     *)
(* NaN stands for every non-finite number (NaN, +Infinity, -Infinity are   *)
(* all rejected by Number.isFinite and all compare false with <), and      *)
(* Undefined for an absent / null / undefined value.                       *)
(***************************************************************************)
EXTENDS Integers, Sequences, FiniteSets, TLC

\* ---------------------------------------------------------------- values
Null == 0                      \* a null object reference
NaN == -1000000001             \* a non-finite number (below every number of the model)
Undefined == -1000000002       \* undefined / null / absent
POSITIVE_INFINITY == 1000000   \* Number.POSITIVE_INFINITY as a loss value

IsFinite(v) == v # NaN /\ v # Undefined
Min(a, b) == IF a <= b THEN a ELSE b
Max(a, b) == IF a >= b THEN a ELSE b
\* Math.max / Math.min on numbers: NaN if either argument is NaN
MathMax(a, b) == IF a = NaN \/ b = NaN THEN NaN ELSE Max(a, b)
MathMin(a, b) == IF a = NaN \/ b = NaN THEN NaN ELSE Min(a, b)
\* a < b on numbers: false as soon as one side is NaN
JsLess(a, b) == a # NaN /\ b # NaN /\ a < b
\* a ?? b
Coalesce(a, b) == IF a = Undefined THEN b ELSE a
\* lr * factor, factor in percent (exact floor, without overflowing 32 bits)
Times(lr, factor) ==
  IF lr = NaN \/ factor = NaN THEN NaN
  ELSE (lr \div 100) * factor + ((lr % 100) * factor) \div 100

\* ------------------------------------------------------------- constants
Epsilon == 1                   \* 1e-12, the tolerance of the reduction test
MinDelta == 2                  \* 1e-4, minDelta of both monitors
DefaultMinLR == 10000000       \* 1e-5
DefaultLearningRate == 1000000000   \* 0.001
DefaultFactor == 50            \* 0.5
DefaultPatience == 3           \* patience default of the plateau callback
MinFactor == 10                \* 0.1, lower clamp of reduceLrFactor
MaxFactor == 90                \* 0.9, upper clamp of reduceLrFactor

\* ---------------------------------------------------------------- bounds
MaxMetric == 3                 \* losses range over 0..MaxMetric
MaxStreak == 4                 \* the stagnation streak is counted up to here
MaxPatience == 2               \* explicit patiences range over 1..MaxPatience

Metrics == 0 .. MaxMetric
\* what logs[monitor] can be at an epoch end
LogValues == Metrics \cup {NaN, Undefined}

VARIABLES
  tfModels,       \* backend: the tf.sequential() models created so far, <<[disposed, layers]>>
  tfOptimizers,   \* backend: the optimizers created so far, <<[disposed, learningRate]>>
  model,          \* GRUModel.model: an index into tfModels, or Null
  optimizer,      \* GRUModel.optimizer: an index into tfOptimizers, or Null
  history,        \* GRUModel.history: Null, or the number of epochs the last fit ran
  initialLearningRate,  \* GRUModel.initialLearningRate
  callback,       \* closure of createReduceLROnPlateauCallback
  earlyStopping,  \* state of the tf.callbacks.earlyStopping callback
  fit,            \* the model.fit call in flight
  current,        \* logs.val_loss of the latest onEpochEnd
  before,         \* history: best, wait and learning rate before the latest onEpochEnd
  streak,         \* history: consecutive finite non-improving epochs seen by the callback
  lrAtStreak,     \* history: the learning rate when the present streak began
  call,           \* the latest call made on the GRUModel
  result,         \* how the latest call ended
  loader,         \* the DataLoader: its options, rows, symbols, dates and the two cubes
  dataset,        \* what the latest createWindowedDataset gave
  tensors,        \* backend: the dataset tensors created so far, <<[key, values, disposed, live]>>
  trainingData,   \* StockPredictionApp.trainingData: the dataset prepared last, NoDataset for null
  pending,        \* StockPredictionApp: the loads that await their file or response text
  legacy,         \* what preprocessData() of the first DataLoader gave
  app             \* StockPredictionApp: the train button, isTraining, the training runs in flight

gruVars == <<tfModels, tfOptimizers, model, optimizer, history, initialLearningRate>>
trainVars == <<callback, earlyStopping, fit, current>>
plateauHistory == <<before, streak, lrAtStreak>>
callVars == <<call, result>>
dataVars == <<loader, dataset, tensors, trainingData, pending, legacy, app>>
vars == <<gruVars, trainVars, plateauHistory, callVars, dataVars>>

\* -------------------------------------------------- learning-rate access
getCurrentLearningRate(opts, opt) ==
  IF opt = Null THEN Undefined ELSE opts[opt].learningRate

setLearningRate(opts, opt, value) ==
  IF opt = Null \/ ~IsFinite(value) THEN opts
  ELSE [opts EXCEPT ![opt].learningRate = value]

\* ------------------------------------------- createReduceLROnPlateauCallback
\* the closure a call creates: best = +Infinity, wait = 0
createReduceLROnPlateauCallback(opt, factor, patience, minDelta, minLR) ==
  [optimizer |-> opt,
   factor    |-> Coalesce(factor, DefaultFactor),
   patience  |-> Coalesce(patience, DefaultPatience),
   minDelta  |-> Coalesce(minDelta, MinDelta),
   minLR     |-> Coalesce(minLR, DefaultMinLR),
   best      |-> POSITIVE_INFINITY,
   wait      |-> 0]

\* variant: only an absent or null value is skipped (current == null)
MetricAbsent(cur) == cur = Undefined

\* current == null || !Number.isFinite(current)
MetricMissing(cur) == ~IsFinite(cur)

\* variant: an improvement of exactly minDelta counts (current <= best - minDelta)
ImprovesAtLeast(cur, best, minDelta) ==
  IF best = POSITIVE_INFINITY THEN TRUE ELSE cur <= best - minDelta

\* current < best - minDelta  (Infinity - minDelta is Infinity)
Improves(cur, best, minDelta) ==
  IF best = POSITIVE_INFINITY THEN TRUE ELSE cur < best - minDelta

\* Math.max(lr * factor, minLR)
NextLearningRate(lr, factor, minLR) == MathMax(Times(lr, factor), minLR)

\* variant: the rate is set whenever it would change (next !== lr)
ShouldChange(next, lr) == next # NaN /\ next # lr

\* next < lr - 1e-12
ShouldReduce(next, lr) == JsLess(next, lr - Epsilon)

\* variant: one more epoch of patience (wait > patience)
PatienceExceeded(wait, patience) == wait > patience

\* wait >= patience
PatienceReached(wait, patience) == wait >= patience

\* onEpochEnd of the plateau callback: the closure and the optimizers after it
ReduceLROnEpochEnd(cb, opts, cur) ==
  IF MetricMissing(cur) THEN [cb |-> cb, opts |-> opts]
  ELSE IF Improves(cur, cb.best, cb.minDelta)
  THEN [cb |-> [cb EXCEPT !.best = cur, !.wait = 0], opts |-> opts]
  ELSE IF PatienceReached(cb.wait + 1, cb.patience)
  THEN LET lr   == getCurrentLearningRate(opts, cb.optimizer)
           next == NextLearningRate(lr, cb.factor, cb.minLR)
       IN [cb   |-> [cb EXCEPT !.wait = 0],
           opts |-> IF lr # Undefined /\ ShouldReduce(next, lr)
                    THEN setLearningRate(opts, cb.optimizer, next)
                    ELSE opts]
  ELSE [cb |-> [cb EXCEPT !.wait = cb.wait + 1], opts |-> opts]

\* ----------------------------------------------------- idle values
NoCallback == [optimizer |-> Null, factor |-> DefaultFactor, patience |-> DefaultPatience,
               minDelta |-> MinDelta, minLR |-> DefaultMinLR,
               best |-> POSITIVE_INFINITY, wait |-> 0]
NoEarlyStopping == [registered |-> FALSE, patience |-> 0, minDelta |-> MinDelta,
                    best |-> POSITIVE_INFINITY, wait |-> 0]
\* lrAtStart is history: the learning rate when the fit (or the callback) began
NoFit == [pc |-> "idle", epochs |-> 0, epoch |-> 0, hasValidation |-> FALSE,
          reduceLR |-> FALSE, stopTraining |-> FALSE, lrAtStart |-> Undefined]
NoBefore == [called |-> FALSE, best |-> POSITIVE_INFINITY, wait |-> 0, lr |-> Undefined]
NoCall == [op |-> "new", args |-> <<>>]

\* ------------------------------------------------------ GRUModel.build
\* a layer-size option: a list of sizes, or something that is not an array
List(items) == [isArray |-> TRUE, items |-> items]
NotAnArray == [isArray |-> FALSE, items |-> <<>>]

\* variant: only the array test, an empty gruUnits passes
GruUnitsNotArray(gruUnits) == ~gruUnits.isArray

\* !Array.isArray(gruUnits) || gruUnits.length === 0
GruUnitsRejected(gruUnits) == ~gruUnits.isArray \/ Len(gruUnits.items) = 0

\* Array.isArray(convFilters) && convFilters.length > 0 (the same test guards denseUnits)
NonEmptyArray(list) == list.isArray /\ Len(list.items) > 0

\* !Number.isFinite(filters) || filters <= 0: the entry build() throws on
InvalidSize(v) == ~IsFinite(v) \/ v <= 0

\* tf.layers.gru({units}) throws unless units is a positive integer
GruLayerThrows(units) == ~IsFinite(units) \/ units <= 0

\* the index of the first entry that is rejected, 0 if there is none
FirstBad(rejected) ==
  IF \E i \in 1 .. Len(rejected) : rejected[i]
  THEN CHOOSE i \in 1 .. Len(rejected) :
         rejected[i] /\ \A j \in 1 .. (i - 1) : ~rejected[j]
  ELSE 0

\* how build(cfg) ends, and how many layers tf.sequential() has received by then
BuildOutcome(cfg) ==
  LET conv    == IF NonEmptyArray(cfg.convFilters) THEN cfg.convFilters.items ELSE <<>>
      dense   == IF NonEmptyArray(cfg.denseUnits) THEN cfg.denseUnits.items ELSE <<>>
      gru     == cfg.gruUnits.items
      badConv == FirstBad([i \in 1 .. Len(conv) |-> InvalidSize(conv[i])])
      badGru  == FirstBad([i \in 1 .. Len(gru) |-> GruLayerThrows(gru[i])])
      badDense == FirstBad([i \in 1 .. Len(dense) |-> InvalidSize(dense[i])])
  IN IF GruUnitsRejected(cfg.gruUnits)
     THEN [result |-> "Error: gruUnits must be a non-empty array", created |-> FALSE, layers |-> 0]
     ELSE IF badConv > 0
     THEN [result |-> "Error: convFilters must contain positive numbers",
           created |-> TRUE, layers |-> badConv - 1]
     ELSE IF badGru > 0
     THEN [result |-> "ValueError: units must be a positive integer",
           created |-> TRUE, layers |-> Len(conv) + badGru - 1]
     ELSE IF badDense > 0
     THEN [result |-> "Error: denseUnits must contain positive numbers",
           created |-> TRUE, layers |-> Len(conv) + Len(gru) + badDense - 1]
     ELSE [result |-> "ok", created |-> TRUE,
           layers |-> Len(conv) + Len(gru) + Len(dense) + 1]

BuildErrors == {"Error: gruUnits must be a non-empty array",
                "Error: convFilters must contain positive numbers",
                "ValueError: units must be a positive integer",
                "Error: denseUnits must contain positive numbers"}

\* x.dispose() on the object a field refers to
Disposed(objects, ref) ==
  IF ref = Null THEN objects ELSE [objects EXCEPT ![ref].disposed = TRUE]

build(cfg) ==
  LET out == BuildOutcome(cfg)
      lr  == Coalesce(cfg.learningRate, DefaultLearningRate)
  IN /\ call' = [op |-> "build", args |-> cfg]
     /\ result' = out.result
     /\ UNCHANGED <<history, trainVars, plateauHistory, dataVars>>
     /\ IF ~out.created
        THEN UNCHANGED <<tfModels, tfOptimizers, model, optimizer, initialLearningRate>>
        ELSE /\ tfModels' = Append(Disposed(tfModels, model),
                                   [disposed |-> FALSE, layers |-> out.layers])
             /\ IF out.result = "ok"
                THEN /\ tfOptimizers' = Append(Disposed(tfOptimizers, optimizer),
                                               [disposed |-> FALSE, learningRate |-> lr])
                     /\ optimizer' = Len(tfOptimizers) + 1
                     /\ initialLearningRate' = lr
                     /\ model' = Len(tfModels) + 1
                ELSE /\ tfOptimizers' = Disposed(tfOptimizers, optimizer)
                     /\ optimizer' = Null
                     /\ model' = Null
                     /\ UNCHANGED initialLearningRate

\* ---------------------------------------------------- GRUModel.dispose
dispose ==
  /\ call' = [op |-> "dispose", args |-> <<>>]
  /\ result' = "ok"
  /\ tfModels' = Disposed(tfModels, model)
  /\ model' = Null
  /\ tfOptimizers' = Disposed(tfOptimizers, optimizer)
  /\ optimizer' = Null
  /\ history' = Null
  /\ UNCHANGED <<initialLearningRate, trainVars, plateauHistory, dataVars>>

\* --------------------------------------- GRUModel.predict / evaluate
\* variant: the guard is gone
NeverNotBuilt(m) == FALSE

\* !this.model
NotBuilt(m) == m = Null

\* what a call on the backend model gives: a TypeError on null, an error on a
\* disposed model, a tensor otherwise
BackendCall(op, m) ==
  IF m = Null THEN "TypeError: cannot read properties of null"
  ELSE IF tfModels[m].disposed THEN "Error: model is disposed"
  ELSE op

predict ==
  /\ call' = [op |-> "predict", args |-> <<>>]
  /\ result' = IF NotBuilt(model) THEN "Error: Model is not built."
               ELSE BackendCall("predict", model)
  /\ UNCHANGED <<gruVars, trainVars, plateauHistory, dataVars>>

evaluate ==
  /\ call' = [op |-> "evaluate", args |-> <<>>]
  /\ result' = IF NotBuilt(model) THEN "Error: Model is not built."
               ELSE BackendCall("evaluate", model)
  /\ UNCHANGED <<gruVars, trainVars, plateauHistory, dataVars>>

NotBuiltErrors == {"Error: Model is not built.", "Error: Call build() before training the model."}

\* ------------------------------------------- tf.callbacks.earlyStopping
\* the TensorFlow.js early-stopping callback as train() configures it: mode
\* 'auto' on val_loss compares with <, best starts at +Infinity, wait at 0
earlyStoppingCallback(patience, minDelta) ==
  [registered |-> TRUE, patience |-> patience, minDelta |-> minDelta,
   best |-> POSITIVE_INFINITY, wait |-> 0]

\* its onEpochEnd: an absent value is skipped; NaN counts as no improvement
EarlyStoppingOnEpochEnd(es, cur) ==
  IF ~es.registered \/ cur = Undefined THEN [es |-> es, stop |-> FALSE]
  ELSE IF cur # NaN /\ (es.best = POSITIVE_INFINITY \/ cur + es.minDelta < es.best)
  THEN [es |-> [es EXCEPT !.best = cur, !.wait = 0], stop |-> FALSE]
  ELSE [es   |-> [es EXCEPT !.wait = es.wait + 1],
        stop |-> es.wait + 1 >= es.patience]

\* ------------------------------------------------------ GRUModel.train
\* variant: one of the two validation tensors is enough (X_val || y_val)
HasAnyValidation(X_val, y_val) == X_val \/ y_val

\* Boolean(X_val && y_val)
HasValidation(X_val, y_val) == X_val /\ y_val

\* Math.round of a non-negative number given in hundredths
RoundHundredths(h) == (h + 50) \div 100

\* earlyStoppingPatience ?? Math.max(8, Math.round(epochs * 0.15))
EarlyStoppingPatience(args) ==
  Coalesce(args.earlyStoppingPatience, Max(8, RoundHundredths(args.epochs * 15)))

\* reduceLrPatience ?? Math.max(4, Math.round(patience / 2))
ReducePatience(args) ==
  Coalesce(args.reduceLrPatience, Max(4, RoundHundredths(EarlyStoppingPatience(args) * 50)))

\* Math.min(0.9, Math.max(0.1, reduceLrFactor ?? 0.5))
ReduceFactor(args) ==
  MathMin(MaxFactor, MathMax(MinFactor, Coalesce(args.reduceLrFactor, DefaultFactor)))

\* the callbacks train() registers and the fit it starts
train(args) ==
  /\ fit.pc # "running"
  /\ call' = [op |-> "train", args |-> args]
  /\ UNCHANGED <<gruVars, plateauHistory, dataVars>>
  /\ IF NotBuilt(model)
     THEN /\ result' = "Error: Call build() before training the model."
          /\ UNCHANGED trainVars
     ELSE LET hasValidation == HasValidation(args.X_val, args.y_val)
              cb == createReduceLROnPlateauCallback(optimizer, ReduceFactor(args),
                      ReducePatience(args), MinDelta, Coalesce(args.minLearningRate, DefaultMinLR))
          IN /\ result' = "pending"
             /\ fit' = [pc |-> "running", epochs |-> args.epochs, epoch |-> 0,
                        hasValidation |-> hasValidation, reduceLR |-> hasValidation,
                        stopTraining |-> FALSE,
                        lrAtStart |-> getCurrentLearningRate(tfOptimizers, optimizer)]
             /\ earlyStopping' = IF hasValidation
                                 THEN earlyStoppingCallback(EarlyStoppingPatience(args), MinDelta)
                                 ELSE NoEarlyStopping
             /\ callback' = IF hasValidation THEN cb ELSE NoCallback
             /\ current' = Undefined

\* variant: the plateau controller is skipped at the epoch early stopping fires
CallbacksCoupled(f, es, cb, opts, cur) ==
  LET e == EarlyStoppingOnEpochEnd(es, cur)
      r == IF f.reduceLR /\ ~e.stop THEN ReduceLROnEpochEnd(cb, opts, cur)
           ELSE [cb |-> cb, opts |-> opts]
  IN [es |-> e.es, stop |-> e.stop, cb |-> r.cb, opts |-> r.opts]

\* the callbacks of one epoch end, in the order train() pushed them: the
\* progress callback (no state), early stopping, the plateau controller
CallbacksOnEpochEnd(f, es, cb, opts, cur) ==
  LET e == EarlyStoppingOnEpochEnd(es, cur)
      r == IF f.reduceLR THEN ReduceLROnEpochEnd(cb, opts, cur) ELSE [cb |-> cb, opts |-> opts]
  IN [es |-> e.es, stop |-> e.stop, cb |-> r.cb, opts |-> r.opts]

\* logs.val_loss exists exactly when fit was given validationData
ValLosses(f) == IF f.hasValidation THEN Metrics \cup {NaN} ELSE {Undefined}

\* one epoch of model.fit: its batches, its logs, its callbacks
FitEpoch(valLoss) ==
  /\ fit.pc = "running"
  /\ fit.epoch < fit.epochs
  /\ ~fit.stopTraining
  /\ LET r == CallbacksOnEpochEnd(fit, earlyStopping, callback, tfOptimizers, valLoss)
     IN /\ earlyStopping' = r.es
        /\ callback' = r.cb
        /\ tfOptimizers' = r.opts
        /\ fit' = [fit EXCEPT !.epoch = fit.epoch + 1, !.stopTraining = r.stop]
        /\ current' = valLoss
  /\ UNCHANGED <<tfModels, model, optimizer, history, initialLearningRate,
                 plateauHistory, callVars, dataVars>>

\* how a fit that left its loop after `epoch` of `epochs` epochs ended
FitResult(f) == IF f.epoch = f.epochs THEN "Completed" ELSE "Stopped"

\* model.fit resolves: this.history = await this.model.fit(...)
FitReturn ==
  /\ fit.pc = "running"
  /\ fit.epoch = fit.epochs \/ fit.stopTraining
  /\ fit' = [fit EXCEPT !.pc = "done"]
  /\ history' = fit.epoch
  /\ result' = FitResult(fit)
  /\ UNCHANGED <<tfModels, tfOptimizers, model, optimizer, initialLearningRate,
                 callback, earlyStopping, current, plateauHistory, call, dataVars>>

\* ----------------------------------------------- StockPredictionApp.handleTrain
DefaultBuildConfig ==
  [gruUnits |-> List(<<128, 96, 64>>), denseUnits |-> List(<<128, 64>>),
   convFilters |-> List(<<96>>), learningRate |-> Undefined]

\* if (this.model) this.model.dispose(); this.model = new GRUModel(...); this.model.build()
handleTrainRebuild ==
  LET out == BuildOutcome(DefaultBuildConfig)
  IN /\ fit.pc # "running"
     /\ call' = [op |-> "handleTrain", args |-> DefaultBuildConfig]
     /\ result' = out.result
     /\ tfModels' = Append(Disposed(tfModels, model), [disposed |-> FALSE, layers |-> out.layers])
     /\ tfOptimizers' = Append(Disposed(tfOptimizers, optimizer),
                               [disposed |-> FALSE, learningRate |-> DefaultLearningRate])
     /\ model' = Len(tfModels) + 1
     /\ optimizer' = Len(tfOptimizers) + 1
     /\ history' = Null
     /\ initialLearningRate' = DefaultLearningRate
     /\ UNCHANGED <<trainVars, plateauHistory, dataVars>>

\* ------------------------------------------------------------ DataLoader
\* Prices are integers, a blank or unparsable cell is NaN.  Normalised values
\* are fixed-point numbers in hundredths (Scale), rounded down.
Scale == 100
DefaultSequenceLength == 12
DefaultPredictionHorizon == 3
DefaultTrainSplit == 80        \* 0.8, in percent

FEATURE_KEYS == <<"Open", "Close", "Return", "Momentum3", "Volatility5">>

\* array[index] with a JavaScript index: undefined outside the array
At(array, index) ==
  IF index + 1 \in DOMAIN array THEN array[index + 1] ELSE Undefined

RECURSIVE SumTo(_, _)
\* series[1] + ... + series[n]
SumTo(series, n) == IF n = 0 THEN 0 ELSE series[n] + SumTo(series, n - 1)

RECURSIVE SqrtBetween(_, _, _)
\* the r with r * r <= n < (r + 1) * (r + 1), given lo * lo <= n < hi * hi
SqrtBetween(n, lo, hi) ==
  IF hi - lo <= 1 THEN lo
  ELSE LET mid == (lo + hi) \div 2
       IN IF mid * mid <= n THEN SqrtBetween(n, mid, hi) ELSE SqrtBetween(n, lo, mid)
\* Math.sqrt, rounded down (46340 is the largest root of a 32-bit integer)
Sqrt(n) == SqrtBetween(n, 0, Min(n, 46340) + 1)

RECURSIVE Sorted(_)
\* Array.from(set).sort(...)
Sorted(set) ==
  IF set = {} THEN <<>>
  ELSE LET least == CHOOSE x \in set : \A y \in set : x <= y
       IN <<least>> \o Sorted(set \ {least})

\* the first loop of fillMissingValues: a gap takes the last finite value before it
ForwardFill(array) ==
  [i \in 1 .. Len(array) |->
     IF IsFinite(array[i]) THEN array[i]
     ELSE LET earlier == {j \in 1 .. (i - 1) : IsFinite(array[j])}
          IN IF earlier = {} THEN array[i]
             ELSE array[CHOOSE j \in earlier : \A k \in earlier : k <= j]]

\* the second loop: a gap that is left takes the first finite value after it
BackwardFill(array) ==
  [i \in 1 .. Len(array) |->
     IF IsFinite(array[i]) THEN array[i]
     ELSE LET later == {j \in (i + 1) .. Len(array) : IsFinite(array[j])}
          IN IF later = {} THEN array[i]
             ELSE array[CHOOSE j \in later : \A k \in later : j <= k]]

\* variant: the forward loop is missing
BackwardOnly(array) == BackwardFill(array)

\* variant: the backward loop runs first
BackwardThenForward(array) == ForwardFill(BackwardFill(array))

fillMissingValues(array) == BackwardFill(ForwardFill(array))

Zeros(series) == [i \in 1 .. Len(series) |-> 0]
FiniteValues(series) == {series[i] : i \in {j \in 1 .. Len(series) : IsFinite(series[j])}}

\* variant: the minimum is not subtracted (value / max)
MaxScale(series) ==
  LET filtered == FiniteValues(series)
  IN IF filtered = {} THEN Zeros(series)
     ELSE LET min == CHOOSE v \in filtered : \A w \in filtered : v <= w
              max == CHOOSE v \in filtered : \A w \in filtered : v >= w
          IN IF min = max THEN Zeros(series)
             ELSE [i \in 1 .. Len(series) |->
                     IF IsFinite(series[i]) THEN (series[i] * Scale) \div max ELSE NaN]

minMaxScale(series) ==
  LET filtered == FiniteValues(series)
  IN IF filtered = {} THEN Zeros(series)
     ELSE LET min == CHOOSE v \in filtered : \A w \in filtered : v <= w
              max == CHOOSE v \in filtered : \A w \in filtered : v >= w
          IN IF min = max THEN Zeros(series)
             ELSE [i \in 1 .. Len(series) |->
                     IF IsFinite(series[i])
                     THEN ((series[i] - min) * Scale) \div (max - min)
                     ELSE NaN]

\* standardScale of a series without gaps (the derived features have none)
standardScale(series) ==
  LET n == Len(series)
  IN IF n = 0 THEN Zeros(series)
     ELSE LET mean     == SumTo(series, n) \div n
              squares  == [i \in 1 .. n |-> (series[i] - mean) * (series[i] - mean)]
              variance == SumTo(squares, n) \div n
              std      == Sqrt(variance)
          IN IF std = 0 THEN Zeros(series)
             ELSE [i \in 1 .. n |-> ((series[i] - mean) * Scale) \div std]

\* (value - previous) / previous over `lag` dates, 0 where it cannot be formed
Change(closes, lag) ==
  [i \in 1 .. Len(closes) |->
     IF i <= lag THEN 0
     ELSE IF ~IsFinite(closes[i]) \/ ~IsFinite(closes[i - lag]) \/ closes[i - lag] = 0 THEN 0
     ELSE ((closes[i] - closes[i - lag]) * Scale) \div closes[i - lag]]

\* std / mean of the five closes up to each date, 0 where it cannot be formed
Volatility5(closes) ==
  [i \in 1 .. Len(closes) |->
     IF i < 5 THEN 0
     ELSE LET window == [k \in 1 .. 5 |-> closes[i - 5 + k]]
          IN IF \E k \in 1 .. 5 : ~IsFinite(window[k]) THEN 0
             ELSE LET mean == (SumTo(window, 5) * Scale) \div 5
                      squares == [k \in 1 .. 5 |->
                                    (window[k] * Scale - mean) * (window[k] * Scale - mean)]
                      std == Sqrt(SumTo(squares, 5) \div 5)
                  IN IF mean = 0 THEN 0 ELSE (std * Scale) \div mean]

\* new DataLoader({sequenceLength, predictionHorizon, trainSplit})
DataLoader(sequenceLength, predictionHorizon, trainSplit) ==
  [sequenceLength |-> sequenceLength, predictionHorizon |-> predictionHorizon,
   trainSplit |-> trainSplit, rows |-> {}, symbols |-> <<>>, dates |-> <<>>,
   featureCube |-> <<>>, normalisedCube |-> <<>>]

NoDataset == [result |-> "none", sequences |-> <<>>, targets |-> <<>>,
              sampleDates |-> <<>>, splitIndex |-> 0,
              X_train |-> Null, X_test |-> Null, y_train |-> Null, y_test |-> Null,
              symbols |-> <<>>, predictionDays |-> Undefined]

\* no load of the app awaits its text
NoPending == [started |-> 0, loads |-> {}]

\* nothing returned by the first DataLoader
NoLegacy == [result |-> "none", sequences |-> <<>>, targets |-> <<>>, anchors |-> <<>>,
             symbols |-> <<>>, dateArray |-> <<>>, featureData |-> <<>>, rawData |-> <<>>]

\* the app after its constructor: setTrainButtonEnabled(false), isTraining =
\* false, no handler of the train button in flight
NoApp == [trainDisabled |-> TRUE, isTraining |-> FALSE, started |-> 0, runs |-> {}]

\* the value a row gives a cell: Number.isFinite(v) ? v : NaN
Cell(v) == IF IsFinite(v) THEN v ELSE NaN

\* variant: the rows of every symbol are scattered into the array
RawSeriesOfAll(rows, dates, symbol, key) ==
  [i \in 1 .. Len(dates) |->
     LET here == {r \in rows : r.date = dates[i]}
     IN IF here = {} THEN NaN
        ELSE LET r == CHOOSE r \in here : \A q \in here : q.symbol <= r.symbol
             IN Cell(IF key = "Open" THEN r.open ELSE r.close)]

\* the Open or Close array of a symbol: NaN everywhere, then the rows' values
RawSeries(rows, dates, symbol, key) ==
  [i \in 1 .. Len(dates) |->
     LET here == {r \in rows : r.symbol = symbol /\ r.date = dates[i]}
     IN IF here = {} THEN NaN
        ELSE LET r == CHOOSE r \in here : TRUE
             IN Cell(IF key = "Open" THEN r.open ELSE r.close)]

\* this.featureCube[symbol]: the filled Open and Close, the features derived from Close
SymbolFeatures(rows, dates, s) ==
  LET open  == fillMissingValues(RawSeries(rows, dates, s, "Open"))
      close == fillMissingValues(RawSeries(rows, dates, s, "Close"))
  IN [Open |-> open, Close |-> close, Return |-> Change(close, 1),
      Momentum3 |-> Change(close, 3), Volatility5 |-> Volatility5(close)]

\* this.normalisedCube[symbol], from the symbol's own feature series
NormalisedFeatures(feature) ==
  [Open |-> minMaxScale(feature.Open),
   Close |-> minMaxScale(feature.Close),
   Return |-> standardScale(feature.Return),
   Momentum3 |-> standardScale(feature.Momentum3),
   Volatility5 |-> standardScale(feature.Volatility5)]

\* the loader after buildFeatureCube()
BuiltCube(l) ==
  LET dates   == Sorted({r.date : r \in l.rows})
      symbols == Sorted({r.symbol : r \in l.rows})
      ids     == {symbols[i] : i \in 1 .. Len(symbols)}
      feature == [s \in ids |-> SymbolFeatures(l.rows, dates, s)]
      normalised == [s \in ids |-> NormalisedFeatures(feature[s])]
  IN [l EXCEPT !.dates = dates, !.symbols = symbols,
               !.featureCube = feature, !.normalisedCube = normalised]

RECURSIVE Flatten(_)
\* the concatenation of a sequence of sequences
Flatten(lists) == IF Len(lists) = 0 THEN <<>> ELSE Head(lists) \o Flatten(Tail(lists))

\* variant: the anchor loop starts one date late (anchor = sequenceLength)
FirstAnchorLate(l) == l.sequenceLength

\* the anchor loop: anchor = sequenceLength - 1; anchor < dates.length - predictionHorizon
FirstAnchor(l) == l.sequenceLength - 1
LastAnchor(l) == Len(l.dates) - l.predictionHorizon - 1
Anchors(l) ==
  [k \in 1 .. Max(0, LastAnchor(l) - FirstAnchor(l) + 1) |-> FirstAnchor(l) + k - 1]

\* the values one date contributes: symbol by symbol, feature by feature
Timestep(l, index) ==
  Flatten([s \in 1 .. Len(l.symbols) |->
             [f \in 1 .. Len(FEATURE_KEYS) |->
                At(l.normalisedCube[l.symbols[s]][FEATURE_KEYS[f]], index)]])

\* offset runs from sequenceLength - 1 down to 0: index = anchor - offset
SequenceAt(l, anchor) ==
  [k \in 1 .. l.sequenceLength |-> Timestep(l, anchor - (l.sequenceLength - k))]

\* no value of the window made valid false
SequenceValid(l, anchor) ==
  LET sequence == SequenceAt(l, anchor)
  IN \A k \in 1 .. l.sequenceLength :
       \A v \in 1 .. Len(sequence[k]) : IsFinite(sequence[k][v])

\* variant: an unchanged close counts as a rise
TargetAtOrEqual(l, anchor) ==
  Flatten([s \in 1 .. Len(l.symbols) |->
             [h \in 1 .. l.predictionHorizon |->
                LET baselineClose == At(l.featureCube[l.symbols[s]].Close, anchor)
                    futureClose   == At(l.featureCube[l.symbols[s]].Close, anchor + h)
                IN IF IsFinite(futureClose) /\ IsFinite(baselineClose)
                      /\ futureClose >= baselineClose
                   THEN 1 ELSE 0]])

\* variant: the labels are laid out day by day (horizon outside, symbol inside)
TargetDayMajor(l, anchor) ==
  Flatten([h \in 1 .. l.predictionHorizon |->
             [s \in 1 .. Len(l.symbols) |->
                LET baselineClose == At(l.featureCube[l.symbols[s]].Close, anchor)
                    futureClose   == At(l.featureCube[l.symbols[s]].Close, anchor + h)
                IN IF IsFinite(futureClose) /\ IsFinite(baselineClose)
                      /\ futureClose > baselineClose
                   THEN 1 ELSE 0]])

\* futureClose > baselineClose ? 1 : 0, symbol by symbol, horizon by horizon
TargetAt(l, anchor) ==
  Flatten([s \in 1 .. Len(l.symbols) |->
             [h \in 1 .. l.predictionHorizon |->
                LET baselineClose == At(l.featureCube[l.symbols[s]].Close, anchor)
                    futureClose   == At(l.featureCube[l.symbols[s]].Close, anchor + h)
                IN IF IsFinite(futureClose) /\ IsFinite(baselineClose)
                      /\ futureClose > baselineClose
                   THEN 1 ELSE 0]])

\* variant: no close is tested, a missing close gives the label 0
TargetNeverSkipped(l, anchor) == TRUE

\* neither the baseline close nor a future close made valid false
TargetValid(l, anchor) ==
  \A s \in 1 .. Len(l.symbols) :
    /\ IsFinite(At(l.featureCube[l.symbols[s]].Close, anchor))
    /\ \A h \in 1 .. l.predictionHorizon :
         IsFinite(At(l.featureCube[l.symbols[s]].Close, anchor + h))

WindowValid(l, anchor) == SequenceValid(l, anchor) /\ TargetValid(l, anchor)

\* variant: the raw split, not clamped
SplitIndexRaw(n, trainSplit) == (n * trainSplit) \div 100

\* Math.min(n - 1, Math.max(1, Math.floor(n * trainSplit)))
SplitIndex(n, trainSplit) == Min(n - 1, Max(1, (n * trainSplit) \div 100))

\* what createWindowedDataset() returns or throws
\* the anchors whose sequence and target were pushed
KeptAnchors(l) == SelectSeq(Anchors(l), LAMBDA anchor : WindowValid(l, anchor))

WindowedDataset(l) ==
  LET kept == KeptAnchors(l)
      n    == Len(kept)
  IN IF n = 0
     THEN [NoDataset EXCEPT !.result = "Error: Unable to construct any sequences"]
     ELSE IF n < 2
     THEN [NoDataset EXCEPT !.result = "Error: Not enough samples to create a train/test split"]
     ELSE [result      |-> "ok",
           sequences   |-> [k \in 1 .. n |-> SequenceAt(l, kept[k])],
           targets     |-> [k \in 1 .. n |-> TargetAt(l, kept[k])],
           sampleDates |-> [k \in 1 .. n |-> At(l.dates, kept[k])],
           splitIndex  |-> SplitIndex(n, l.trainSplit),
           X_train |-> Null, X_test |-> Null, y_train |-> Null, y_test |-> Null,
           symbols |-> <<>>, predictionDays |-> Undefined]

\* ------------------------------------------------------ dataset tensors
\* tf.tensor(values, ...): `live` records the dataset tensors that were not
\* disposed when the call that made this one began
Tensor(key, values, live) ==
  [key |-> key, values |-> values, disposed |-> FALSE, live |-> live]

LiveTensors(tf) == {i \in DOMAIN tf : ~tf[i].disposed}

\* tensor.dispose() on each of refs (a disposed tensor stays disposed)
DisposeTensors(tf, refs) ==
  [i \in DOMAIN tf |-> IF i \in refs THEN [tf[i] EXCEPT !.disposed = TRUE] ELSE tf[i]]

\* variant: the test slice begins one sample early
SliceTestEarly(values, splitIndex) ==
  SubSeq(values, Max(1, splitIndex), Len(values))

\* X.slice([0, ...], [splitIndex, ...]) and X.slice([splitIndex, ...], [n - splitIndex, ...]);
\* the rows that exist are taken (the code's split index lies inside the tensor)
SliceTrain(values, splitIndex) == SubSeq(values, 1, Min(Len(values), Max(0, splitIndex)))
SliceTest(values, splitIndex) ==
  SubSeq(values, Max(0, splitIndex) + 1, Len(values))

\* variant: X and y are not disposed before the throw
SingleSampleLeaks(tf, l, live) ==
  LET kept == KeptAnchors(l)
  IN tf \o <<Tensor("X", <<SequenceAt(l, kept[1])>>, live),
             Tensor("y", <<TargetAt(l, kept[1])>>, live)>>

\* one sample: X and y are made, disposed, and the call throws
SingleSampleTensors(tf, l, live) ==
  LET kept == KeptAnchors(l)
  IN tf \o <<[Tensor("X", <<SequenceAt(l, kept[1])>>, live) EXCEPT !.disposed = TRUE],
             [Tensor("y", <<TargetAt(l, kept[1])>>, live) EXCEPT !.disposed = TRUE]>>

\* the backend tensors after createWindowedDataset() gave w
TensorsAfter(tf, l, w) ==
  LET live == LiveTensors(tf)
  IN IF w.result = "ok"
     THEN tf \o <<[Tensor("X", w.sequences, live) EXCEPT !.disposed = TRUE],
                  [Tensor("y", w.targets, live) EXCEPT !.disposed = TRUE],
                  Tensor("X_train", SliceTrain(w.sequences, w.splitIndex), live),
                  Tensor("X_test", SliceTest(w.sequences, w.splitIndex), live),
                  Tensor("y_train", SliceTrain(w.targets, w.splitIndex), live),
                  Tensor("y_test", SliceTest(w.targets, w.splitIndex), live)>>
     ELSE IF w.result = "Error: Not enough samples to create a train/test split"
     THEN SingleSampleTensors(tf, l, live)
     ELSE tf

\* the returned object: the four slices, sampleDates and splitIndex
Returned(w, base) ==
  IF w.result = "ok"
  THEN [w EXCEPT !.X_train = base + 3, !.X_test = base + 4,
                 !.y_train = base + 5, !.y_test = base + 6]
  ELSE w

\* what DataLoader.prepareDataset() returns: the dataset with symbols:
\* this.symbols.slice() and predictionDays: this.predictionHorizon
Prepared(l, w, base) ==
  IF w.result = "ok"
  THEN [Returned(w, base) EXCEPT !.symbols = l.symbols,
                                 !.predictionDays = l.predictionHorizon]
  ELSE w

\* parseCSV(text): the rows of the text replace the loader's rows
parseCSV(rows) ==
  /\ loader' = [loader EXCEPT !.rows = rows]
  /\ UNCHANGED <<dataset, tensors, trainingData, pending, legacy, app, gruVars, trainVars, plateauHistory, callVars>>

\* buildFeatureCube() has no throw statement: it returns for every row set
buildFeatureCube ==
  /\ loader' = BuiltCube(loader)
  /\ call' = [op |-> "buildFeatureCube", args |-> <<>>]
  /\ result' = "ok"
  /\ UNCHANGED <<dataset, tensors, trainingData, pending, legacy, app, gruVars, trainVars, plateauHistory>>

createWindowedDataset ==
  LET w == WindowedDataset(loader)
  IN /\ dataset' = Returned(w, Len(tensors))
     /\ tensors' = TensorsAfter(tensors, loader, w)
     /\ UNCHANGED <<loader, trainingData, pending, legacy, app, gruVars, trainVars, plateauHistory, callVars>>

\* prepareDataset(): buildFeatureCube(), then createWindowedDataset()
prepareDataset ==
  LET built == BuiltCube(loader)
      w     == WindowedDataset(built)
  IN /\ loader' = built
     /\ dataset' = Prepared(built, w, Len(tensors))
     /\ tensors' = TensorsAfter(tensors, built, w)
     /\ UNCHANGED <<trainingData, pending, legacy, app, gruVars, trainVars, plateauHistory, callVars>>

\* ------------------------------------------- GRUModel.analysePredictions
\* Probabilities are in percent, labels are 0 or 1; a cell outside a row is
\* undefined.

\* variant: a probability of exactly 0.5 is called 0 (row[offset + day] > 0.5)
ThresholdedAbove(row, index) ==
  LET p == At(row, index) IN IF IsFinite(p) /\ p > 50 THEN 1 ELSE 0

\* row[offset + day] >= 0.5 ? 1 : 0
Thresholded(row, index) ==
  LET p == At(row, index) IN IF IsFinite(p) /\ p >= 50 THEN 1 ELSE 0

\* variant: a false positive is not counted
ClassifyWithoutFp(pred, actual) ==
  IF pred = 1 /\ actual = 1 THEN "tp"
  ELSE IF pred = 1 /\ actual = 0 THEN "none"
  ELSE IF pred = 0 /\ actual = 1 THEN "fn"
  ELSE "tn"

\* the if / else if chain: which count of the symbol a cell adds to
Classify(pred, actual) ==
  IF pred = 1 /\ actual = 1 THEN "tp"
  ELSE IF pred = 1 /\ actual = 0 THEN "fp"
  ELSE IF pred = 0 /\ actual = 1 THEN "fn"
  ELSE "tn"

\* what analysePredictions returns, with its two running totals
Analysed(predictionsArray, groundTruthArray, symbols, predictionDays) ==
  LET rows == 1 .. Len(predictionsArray)
      days == 0 .. (predictionDays - 1)
      pred(r, stockIdx, day) ==
        Thresholded(predictionsArray[r], (stockIdx - 1) * predictionDays + day)
      actual(r, stockIdx, day) ==
        At(groundTruthArray[r], (stockIdx - 1) * predictionDays + day)
      count(stockIdx, kind) ==
        Cardinality({c \in rows \X days :
                       Classify(pred(c[1], stockIdx, c[2]), actual(c[1], stockIdx, c[2])) = kind})
      correctCount(r, stockIdx) ==
        Cardinality({day \in days : pred(r, stockIdx, day) = actual(r, stockIdx, day)})
      correct(stockIdx) == SumTo([r \in rows |-> correctCount(r, stockIdx)], Len(predictionsArray))
      total(stockIdx) == SumTo([r \in rows |-> predictionDays], Len(predictionsArray))
      globalTotal == Cardinality(rows \X (1 .. Len(symbols)) \X days)
      globalCorrect == SumTo([s \in 1 .. Len(symbols) |-> correct(s)], Len(symbols))
  IN [perStockConfusion |-> [s \in 1 .. Len(symbols) |->
                               [symbol |-> symbols[s],
                                tp |-> count(s, "tp"), fp |-> count(s, "fp"),
                                fn |-> count(s, "fn"), tn |-> count(s, "tn")]],
      perStockTimeline  |-> [s \in 1 .. Len(symbols) |->
                               [r \in rows |->
                                  [correctCount |-> correctCount(r, s),
                                   total |-> predictionDays,
                                   perDayFlags |->
                                     [d \in 1 .. predictionDays |->
                                        [predicted |-> pred(r, s, d - 1),
                                         actual |-> actual(r, s, d - 1),
                                         correct |-> pred(r, s, d - 1) = actual(r, s, d - 1)]]]]],
      perStockAccuracy  |-> [s \in 1 .. Len(symbols) |->
                               IF total(s) = 0 THEN 0 ELSE (correct(s) * 100) \div total(s)],
      overallAccuracy   |-> IF globalTotal = 0 THEN 0 ELSE (globalCorrect * 100) \div globalTotal,
      globalCorrect     |-> globalCorrect,
      globalTotal       |-> globalTotal]

analysePredictions(predictionsArray, groundTruthArray, symbols, predictionDays) ==
  /\ call' = [op |-> "analysePredictions",
              args |-> [predictionsArray |-> predictionsArray,
                        groundTruthArray |-> groundTruthArray,
                        symbols |-> symbols, predictionDays |-> predictionDays]]
  /\ result' = Analysed(predictionsArray, groundTruthArray, symbols, predictionDays)
  /\ UNCHANGED <<gruVars, trainVars, plateauHistory, dataVars>>

\* ------------------------------------- StockPredictionApp.evaluateModel
\* evaluateModel() on the dataset `data` the app holds, predictionsArray being
\* what model.predict(data.X_test) gave: the labels are those of data.y_test,
\* the symbols and the horizon those of the dataset
evaluateModel(data, predictionsArray) ==
  analysePredictions(predictionsArray, tensors[data.y_test].values,
                     data.symbols, data.predictionDays)

\* --------------------------------------------------- StockPredictionApp
\* A load runs in two steps.  The handler starts and awaits the text of the
\* file or of the response.  When the text is there the rest runs without
\* another handler in between: parseCSV and both prepareDataset are
\* synchronous, and the awaits on them resume from promises already settled.

\* the text of a CSV: its rows and "none", or no rows and what is thrown for it
Text(rows, fault) == [rows |-> rows, fault |-> fault]

\* variant: the old tensors are kept
KeepTrainingData(tf, data) == tf

\* disposeTrainingData(): the four tensors of this.trainingData, if there is one
disposeTrainingData(tf, data) ==
  IF data = NoDataset THEN tf
  ELSE DisposeTensors(tf, {data.X_train, data.X_test, data.y_train, data.y_test})

\* dataLoader.parseCSV(text): the loader after it ('CSV file is empty' is
\* thrown before this.rows is touched, 'No valid data rows' after it is emptied)
ParsedBy(l, text) ==
  IF text.fault = "CSV file is empty" THEN l ELSE [l EXCEPT !.rows = text.rows]

\* the handler starts and awaits file.text() or fetch(url)
StartLoad(kind, text, limit) ==
  /\ pending.started < limit
  /\ pending' = [started |-> pending.started + 1,
                 loads |-> pending.loads \cup {[id |-> pending.started + 1,
                                               kind |-> kind, text |-> text]}]
  /\ UNCHANGED <<loader, dataset, tensors, trainingData, legacy, app,
                 gruVars, trainVars, plateauHistory, callVars>>

loadDatasetFromFile(text, limit) == StartLoad("file", text, limit)
loadDatasetFromSample(text, limit) == StartLoad("sample", text, limit)

\* the text of a load is there: dataLoader.parseCSV(text), then
\* this.prepareDataset(): disposeTrainingData(), dataLoader.prepareDataset(),
\* this.trainingData is set and the train button enabled if nothing was
\* thrown; what is thrown goes to handleError, which disables the button
TextArrives(load) ==
  /\ load \in pending.loads
  /\ pending' = [pending EXCEPT !.loads = pending.loads \ {load}]
  /\ IF load.text.fault # "none"
     THEN /\ loader' = ParsedBy(loader, load.text)
          /\ call' = [op |-> "handleError", args |-> load.id]
          /\ result' = load.text.fault
          /\ app' = [app EXCEPT !.trainDisabled = TRUE]
          /\ UNCHANGED <<dataset, tensors, trainingData>>
     ELSE LET built    == BuiltCube(ParsedBy(loader, load.text))
              released == disposeTrainingData(tensors, trainingData)
              w        == WindowedDataset(built)
          IN /\ loader' = built
             /\ tensors' = TensorsAfter(released, built, w)
             /\ dataset' = Prepared(built, w, Len(released))
             /\ trainingData' = IF w.result = "ok" THEN dataset' ELSE trainingData
             /\ call' = [op |-> IF w.result = "ok" THEN "prepareDataset" ELSE "handleError",
                         args |-> load.id]
             /\ result' = w.result
             /\ app' = [app EXCEPT !.trainDisabled = (w.result # "ok")]
  /\ UNCHANGED <<legacy, gruVars, trainVars, plateauHistory>>

\* the Clear button: dataLoader.reset(), disposeTrainingData(), the model is
\* disposed and forgotten, this.trainingData = null
resetApplicationState ==
  /\ loader' = [loader EXCEPT !.rows = {}, !.symbols = <<>>, !.dates = <<>>,
                              !.featureCube = <<>>, !.normalisedCube = <<>>]
  /\ tensors' = disposeTrainingData(tensors, trainingData)
  /\ trainingData' = NoDataset
  /\ tfModels' = Disposed(tfModels, model)
  /\ model' = Null
  /\ tfOptimizers' = Disposed(tfOptimizers, optimizer)
  /\ optimizer' = Null
  /\ history' = Null
  /\ app' = [app EXCEPT !.trainDisabled = TRUE]
  /\ call' = [op |-> "resetApplicationState", args |-> 0]
  /\ result' = "ok"
  /\ UNCHANGED <<dataset, pending, legacy, initialLearningRate, trainVars, plateauHistory>>

\* ------------------------------------- StockPredictionApp: training runs
\* A click on the train button is delivered only while the button is enabled.
\* handleTrain runs up to `await this.model.train(...)`, where model.fit
\* yields to the event loop after every batch and every epoch
\* (tf.nextFrame()); evaluateModel yields once more, at the Promise.all over
\* the two array() reads.  Each invocation in flight is a run: the tensors
\* and the tf model handed to fit, and where it is suspended.

\* Number.parseInt(this.dom.epochInput.value, 10) || 60 with the input left alone
AppEpochs == 60

\* the tensors handed to model.fit by a run
RunTensors(run) == {run.X_train, run.y_train, run.X_test, run.y_test}

\* something a suspended fit goes on to use has been disposed
UsesDisposed(run) ==
  \/ \E i \in RunTensors(run) : tensors[i].disposed
  \/ tfModels[run.model].disposed

\* catch and finally of handleTrain: handleError disables the train button,
\* then the finally block enables it; without an error only the latter
Finally(a, run) ==
  [a EXCEPT !.trainDisabled = FALSE, !.runs = a.runs \ {run}]

\* a click on the enabled train button: handleTrain() up to its first await
handleTrain(limit) ==
  /\ ~app.trainDisabled
  /\ IF trainingData = NoDataset
     THEN /\ call' = [op |-> "handleTrain", args |-> 0]
          /\ result' = "returned"
          /\ UNCHANGED <<dataVars, gruVars, trainVars, plateauHistory>>
     ELSE LET out == BuildOutcome(DefaultBuildConfig)
              run == [id |-> app.started + 1, pc |-> "training",
                      X_train |-> trainingData.X_train, y_train |-> trainingData.y_train,
                      X_test |-> trainingData.X_test, y_test |-> trainingData.y_test,
                      model |-> Len(tfModels) + 1, prediction |-> Null]
          IN /\ app.started < limit
             /\ app' = [app EXCEPT !.trainDisabled = TRUE,
                                   !.started = app.started + 1,
                                   !.runs = app.runs \cup {run}]
             /\ tfModels' = Append(Disposed(tfModels, model),
                                   [disposed |-> FALSE, layers |-> out.layers])
             /\ tfOptimizers' = Append(Disposed(tfOptimizers, optimizer),
                                       [disposed |-> FALSE, learningRate |-> DefaultLearningRate])
             /\ model' = Len(tfModels) + 1
             /\ optimizer' = Len(tfOptimizers) + 1
             /\ history' = Null
             /\ initialLearningRate' = DefaultLearningRate
             /\ call' = [op |-> "handleTrain", args |-> app.started + 1]
             /\ result' = out.result
             /\ UNCHANGED <<loader, dataset, tensors, trainingData, pending, legacy,
                            trainVars, plateauHistory>>

\* model.fit rejects at a batch that finds a tensor or the model disposed:
\* handleTrain goes through catch and finally
FitRejects(run) ==
  /\ run \in app.runs
  /\ run.pc = "training"
  /\ UsesDisposed(run)
  /\ app' = Finally(app, run)
  /\ call' = [op |-> "handleError", args |-> run.id]
  /\ result' = "Error: Tensor is disposed"
  /\ UNCHANGED <<loader, dataset, tensors, trainingData, pending, legacy,
                 gruVars, trainVars, plateauHistory>>

\* model.fit resolves (a dispose after its last batch does not stop it); the
\* GRUModel of the run keeps the history (here the epochs asked for), and
\* evaluateModel() runs up to its await on what this.model and
\* this.trainingData are by now
FitResolves(run) ==
  /\ run \in app.runs
  /\ run.pc = "training"
  /\ history' = IF run.model = model THEN AppEpochs ELSE history
  /\ IF model = Null \/ trainingData = NoDataset
     THEN /\ app' = Finally(app, run)
          /\ call' = [op |-> "evaluateModel", args |-> run.id]
          /\ result' = "returned"
          /\ UNCHANGED tensors
     ELSE IF tensors[trainingData.X_test].disposed
     THEN /\ app' = Finally(app, run)
          /\ call' = [op |-> "handleError", args |-> run.id]
          /\ result' = "Error: Tensor is disposed"
          /\ UNCHANGED tensors
     ELSE /\ tensors' = Append(tensors, Tensor("prediction", <<>>, LiveTensors(tensors)))
          /\ app' = [app EXCEPT !.runs = (app.runs \ {run}) \cup
                                  {[run EXCEPT !.pc = "evaluating",
                                               !.prediction = Len(tensors) + 1]}]
          /\ call' = [op |-> "evaluateModel", args |-> run.id]
          /\ result' = "Evaluating on held-out set"
  /\ UNCHANGED <<loader, dataset, trainingData, pending, legacy, tfModels, tfOptimizers,
                 model, optimizer, initialLearningRate, trainVars, plateauHistory>>

\* both arrays are there: predictionTensor.dispose(), then
\* this.model.analysePredictions(..., this.trainingData.symbols, ...), a
\* TypeError if Clear has set this.model and this.trainingData to null
ArraysArrive(run) ==
  /\ run \in app.runs
  /\ run.pc = "evaluating"
  /\ tensors' = DisposeTensors(tensors, {run.prediction})
  /\ app' = Finally(app, run)
  /\ IF model = Null \/ trainingData = NoDataset
     THEN /\ call' = [op |-> "handleError", args |-> run.id]
          /\ result' = "TypeError: Cannot read properties of null"
     ELSE /\ call' = [op |-> "evaluateModel", args |-> run.id]
          /\ result' = "Evaluation complete"
  /\ UNCHANGED <<loader, dataset, trainingData, pending, legacy,
                 gruVars, trainVars, plateauHistory>>

\* ------------------------------------- the first DataLoader (Open, Close)
\* Its window and horizon are local constants of createSequences, its split
\* a field set by the constructor.  A date without a row leaves null
\* (Undefined here) in a series, a blank cell parses to NaN.
LegacySequenceLength == 12
LegacyPredictionDays == 3
LegacyTrainTestSplit == 80     \* 0.8, in percent

\* the lines of the file: date by date, symbol by symbol
InFileOrder(rows) ==
  LET keys == Sorted({r.date * 10 + r.symbol : r \in rows})
  IN [i \in 1 .. Len(keys) |-> CHOOSE r \in rows : r.date * 10 + r.symbol = keys[i]]

\* Array.from(new Set(rawData.map(row => row.Symbol))): in order of first appearance
InsertionOrder(rawData) ==
  LET ids      == {rawData[i].symbol : i \in 1 .. Len(rawData)}
      first(s) == CHOOSE i \in 1 .. Len(rawData) :
                    rawData[i].symbol = s /\ \A j \in 1 .. (i - 1) : rawData[j].symbol # s
      firsts   == Sorted({first(s) : s \in ids})
  IN [k \in 1 .. Len(firsts) |-> rawData[firsts[k]].symbol]

\* new Array(n).fill(null), then parseFloat of the cell of every row
LegacySeries(rawData, allDates, symbol, key) ==
  [i \in 1 .. Len(allDates) |->
     LET here == {k \in 1 .. Len(rawData) :
                    rawData[k].symbol = symbol /\ rawData[k].date = allDates[i]}
     IN IF here = {} THEN Undefined
        ELSE LET r == rawData[CHOOSE k \in here : \A j \in here : j <= k]
             IN IF key = "Open" THEN r.open ELSE r.close]

\* the forward fill of preprocessData: only null is a gap, NaN is carried on
LegacyForwardFill(array) ==
  [i \in 1 .. Len(array) |->
     IF array[i] # Undefined THEN array[i]
     ELSE LET earlier == {j \in 1 .. (i - 1) : array[j] # Undefined}
          IN IF earlier = {} THEN Undefined
             ELSE array[CHOOSE j \in earlier : \A k \in earlier : k <= j]]

\* minMaxNormalize: (val - min) / (max - min), null counting as 0; NaN as
\* soon as a NaN is among the values, all are null, or min = max
minMaxNormalize(data) ==
  LET filtered == {data[i] : i \in {j \in 1 .. Len(data) : data[j] # Undefined}}
  IN IF filtered = {} \/ NaN \in filtered THEN [i \in 1 .. Len(data) |-> NaN]
     ELSE LET min == CHOOSE v \in filtered : \A w \in filtered : v <= w
              max == CHOOSE v \in filtered : \A w \in filtered : v >= w
          IN IF min = max THEN [i \in 1 .. Len(data) |-> NaN]
             ELSE [i \in 1 .. Len(data) |->
                     ((Coalesce(data[i], 0) - min) * Scale) \div (max - min)]

\* for (let i = sequenceLength; i < dateArray.length - predictionDays; i++)
LegacyAnchors(n) ==
  [k \in 1 .. Max(0, n - LegacyPredictionDays - LegacySequenceLength) |->
     LegacySequenceLength + k - 1]

\* futureClose > currentClose ? 1 : 0 when neither is null, else the default 0
LegacyTarget(featureData, symbolsArray, i) ==
  Flatten([s \in 1 .. Len(symbolsArray) |->
             [k \in 1 .. LegacyPredictionDays |->
                LET currentClose == At(featureData[symbolsArray[s]].Close, i)
                    futureClose  == At(featureData[symbolsArray[s]].Close, i + k)
                IN IF futureClose # Undefined /\ currentClose # Undefined
                   THEN (IF JsLess(currentClose, futureClose) THEN 1 ELSE 0)
                   ELSE 0]])

\* what preprocessData() returns (through createSequences) or throws
Preprocessed(rawData) ==
  LET symbolsArray == InsertionOrder(rawData)
      allDates     == Sorted({rawData[i].date : i \in 1 .. Len(rawData)})
      ids          == {symbolsArray[i] : i \in 1 .. Len(symbolsArray)}
      featureData  == [s \in ids |->
                         [Open  |-> LegacyForwardFill(LegacySeries(rawData, allDates, s, "Open")),
                          Close |-> LegacyForwardFill(LegacySeries(rawData, allDates, s, "Close"))]]
      normalizedData == [s \in ids |-> [Open  |-> minMaxNormalize(featureData[s].Open),
                                        Close |-> minMaxNormalize(featureData[s].Close)]]
      anchors      == LegacyAnchors(Len(allDates))
      sequence(i)  == [j \in 1 .. LegacySequenceLength |->
                         Flatten([s \in 1 .. Len(symbolsArray) |->
                                    <<At(normalizedData[symbolsArray[s]].Open,
                                         i - LegacySequenceLength + j - 1),
                                      At(normalizedData[symbolsArray[s]].Close,
                                         i - LegacySequenceLength + j - 1)>>])]
  IN [result      |-> IF Len(anchors) = 0 THEN "Error: tensor3d() requires values"
                      ELSE "ok",
      sequences   |-> [k \in 1 .. Len(anchors) |-> sequence(anchors[k])],
      targets     |-> [k \in 1 .. Len(anchors) |->
                         LegacyTarget(featureData, symbolsArray, anchors[k])],
      anchors     |-> anchors,
      symbols     |-> symbolsArray,
      dateArray   |-> allDates,
      featureData |-> featureData,
      rawData     |-> rawData]

\* the tensors createSequences leaves: this.X, this.y and the four slices,
\* split at Math.floor(sequences.length * this.trainTestSplit)
LegacyTensors(tf, out) ==
  LET live == LiveTensors(tf)
      splitIndex == (Len(out.sequences) * LegacyTrainTestSplit) \div 100
  IN IF out.result # "ok" THEN tf
     ELSE tf \o <<Tensor("X", out.sequences, live),
                  Tensor("y", out.targets, live),
                  Tensor("X_train", SliceTrain(out.sequences, splitIndex), live),
                  Tensor("X_test", SliceTest(out.sequences, splitIndex), live),
                  Tensor("y_train", SliceTrain(out.targets, splitIndex), live),
                  Tensor("y_test", SliceTest(out.targets, splitIndex), live)>>

\* loadCSV(file): parseCSV(text) replaces rawData
loadCSV(rows) ==
  /\ legacy' = [NoLegacy EXCEPT !.rawData = InFileOrder(rows)]
  /\ UNCHANGED <<loader, dataset, tensors, trainingData, pending, app,
                 gruVars, trainVars, plateauHistory, callVars>>

preprocessData ==
  LET out == Preprocessed(legacy.rawData)
  IN /\ legacy' = out
     /\ tensors' = LegacyTensors(tensors, out)
     /\ UNCHANGED <<loader, dataset, trainingData, pending, app,
                    gruVars, trainVars, plateauHistory, callVars>>

\* ------------------------------------------- the plateau callback on its own
PlateauFactors == {MinFactor, DefaultFactor, 150}
PlateauMinLRs == {Undefined, 400000000, NaN}
PlateauLearningRates == {DefaultLearningRate, 5000000, DefaultMinLR + 1}

\* the GRUModel fields right after the constructor
Constructed ==
  /\ tfModels = <<>>
  /\ model = Null
  /\ optimizer = Null
  /\ history = Null
  /\ initialLearningRate = DefaultLearningRate
  /\ call = NoCall
  /\ result = "ok"

\* no DataLoader activity: a loader with the default options, nothing prepared
NoData ==
  /\ loader = DataLoader(DefaultSequenceLength, DefaultPredictionHorizon, DefaultTrainSplit)
  /\ dataset = NoDataset
  /\ tensors = <<>>
  /\ trainingData = NoDataset
  /\ pending = NoPending
  /\ legacy = NoLegacy
  /\ app = NoApp

\* freshly constructed objects: no model, no callback, no rows, no tensors
InitIdle ==
  /\ Constructed
  /\ tfOptimizers = <<>>
  /\ callback = NoCallback
  /\ earlyStopping = NoEarlyStopping
  /\ fit = NoFit
  /\ current = Undefined
  /\ before = NoBefore
  /\ streak = 0
  /\ lrAtStreak = Undefined
  /\ NoData

InitPlateau ==
  /\ Constructed
  /\ NoData
  /\ \E lr0 \in PlateauLearningRates :
       tfOptimizers = <<[disposed |-> FALSE, learningRate |-> lr0]>>
  /\ \E factor \in PlateauFactors, patience \in 1 .. MaxPatience,
        minLR \in PlateauMinLRs :
       callback = createReduceLROnPlateauCallback(1, factor, patience, Undefined, minLR)
  /\ earlyStopping = NoEarlyStopping
  /\ fit = [NoFit EXCEPT !.lrAtStart = tfOptimizers[1].learningRate]
  /\ current = Undefined
  /\ before = NoBefore
  /\ streak = 0
  /\ lrAtStreak = tfOptimizers[1].learningRate

\* the history variables: a finite epoch that improves ends the streak
StreakAfter(cb, cur) ==
  IF MetricMissing(cur) THEN streak
  ELSE IF Improves(cur, cb.best, cb.minDelta) THEN 0
  ELSE Min(streak + 1, MaxStreak)

OnEpochEnd(cur) ==
  LET r == ReduceLROnEpochEnd(callback, tfOptimizers, cur)
  IN /\ callback' = r.cb
     /\ tfOptimizers' = r.opts
     /\ current' = cur
     /\ before' = [called |-> TRUE, best |-> callback.best, wait |-> callback.wait,
                   lr |-> getCurrentLearningRate(tfOptimizers, callback.optimizer)]
     /\ streak' = StreakAfter(callback, cur)
     /\ lrAtStreak' = IF StreakAfter(callback, cur) = 0
                      THEN r.opts[callback.optimizer].learningRate
                      ELSE lrAtStreak
     /\ UNCHANGED <<tfModels, model, optimizer, history, initialLearningRate,
                    earlyStopping, fit, callVars, dataVars>>

NextPlateau == \E cur \in LogValues : OnEpochEnd(cur)

SpecPlateau == InitPlateau /\ [][NextPlateau]_vars

\* ------------------------------------------------ properties of the callback
\* the learning rate the plateau callback reads and writes
PlateauLR == getCurrentLearningRate(tfOptimizers, callback.optimizer)

\* the latest step was an onEpochEnd with a finite monitored value
FiniteEpochEnd == before.called /\ IsFinite(current)

\* the floor of the callback as a number: max(x, minLR), written out
Floored(x) == IF x >= callback.minLR THEN x ELSE callback.minLR

\* C1 as stated: at an epoch end with a finite value m, best - m >= minDelta
\* makes best = m and wait = 0; otherwise wait grows by 1, and when it reaches
\* patience the learning rate becomes max(lr * factor, minLR) and wait is 0.
C1_StepRuleAsStated ==
  FiniteEpochEnd =>
    IF before.best = POSITIVE_INFINITY \/ before.best - current >= callback.minDelta
    THEN callback.best = current /\ callback.wait = 0
    ELSE IF before.wait + 1 >= callback.patience
    THEN /\ callback.wait = 0
         /\ callback.minLR # NaN
         /\ PlateauLR = Floored(Times(before.lr, callback.factor))
    ELSE callback.wait = before.wait + 1

\* C1 amended: the improvement test is strict (best - m > minDelta); on
\* reaching patience wait is reset to 0 and the learning rate becomes
\* max(lr * factor, minLR) only if that is finite and more than 1e-12 below
\* the present rate, otherwise the rate is left as it is; best and the rate
\* change in no other case.
C1_StepRule ==
  FiniteEpochEnd =>
    IF before.best = POSITIVE_INFINITY \/ before.best - current > callback.minDelta
    THEN callback.best = current /\ callback.wait = 0 /\ PlateauLR = before.lr
    ELSE /\ callback.best = before.best
         /\ IF before.wait + 1 >= callback.patience
            THEN /\ callback.wait = 0
                 /\ PlateauLR =
                      IF /\ callback.minLR # NaN
                         /\ Floored(Times(before.lr, callback.factor)) < before.lr - Epsilon
                      THEN Floored(Times(before.lr, callback.factor))
                      ELSE before.lr
            ELSE callback.wait = before.wait + 1 /\ PlateauLR = before.lr

\* a non-improving epoch that reached patience and lowered the rate to the floor
C1_Witness ==
  /\ FiniteEpochEnd
  /\ before.best - current = callback.minDelta
  /\ before.wait + 1 = callback.patience
  /\ callback.wait = 0
  /\ PlateauLR = callback.minLR
  /\ PlateauLR < before.lr

\* the two ways the stated rule differs from the code, each on its own
C1_EqualityIsNoImprovement ==
  FiniteEpochEnd /\ before.best - current = callback.minDelta => callback.best = current
C1_RateAlwaysSet ==
  FiniteEpochEnd /\ before.best # POSITIVE_INFINITY
    /\ before.best - current < callback.minDelta
    /\ before.wait + 1 >= callback.patience /\ callback.minLR # NaN
    => PlateauLR = Floored(Times(before.lr, callback.factor))

\* Scenario D: patience 2, factor 0.5, minLR 1e-5, initial learning rate 1e-3
ScenarioD ==
  /\ callback.patience = 2
  /\ callback.factor = DefaultFactor
  /\ callback.minLR = DefaultMinLR
  /\ fit.lrAtStart = DefaultLearningRate

\* C2: in Scenario D the learning rate is untouched by the first stagnating
\* epoch of a streak, is halved (floored at 1e-5) at the second, where wait
\* reaches patience, and is still that value after the third; it is never
\* below 1e-5.
C2_ScenarioD ==
  ScenarioD =>
    /\ PlateauLR >= DefaultMinLR
    /\ streak <= 1 => PlateauLR = lrAtStreak
    /\ streak = 1 => callback.wait = 1
    /\ streak \in {2, 3} =>
         PlateauLR = Max(Times(lrAtStreak, DefaultFactor), DefaultMinLR)
    /\ streak = 2 => callback.wait = 0
    /\ streak = 2 /\ IsFinite(current) => before.wait = 1 /\ before.lr = lrAtStreak
    /\ streak = 3 /\ lrAtStreak = DefaultLearningRate => PlateauLR = 500000000

\* three epochs without improvement from the initial rate: 1e-3 halved once
C2_Witness ==
  /\ ScenarioD
  /\ streak = 3
  /\ lrAtStreak = DefaultLearningRate
  /\ PlateauLR = 500000000
  /\ IsFinite(current)

\* Scenario D run long enough to sit on the floor
C2_AtFloor == ScenarioD /\ PlateauLR = DefaultMinLR

\* the latest step was an onEpochEnd whose monitored value was absent, null or
\* not a finite number
MissingEpochEnd == before.called /\ ~IsFinite(current)

\* C30: an epoch whose monitored metric is absent, null or non-finite leaves
\* best, the wait counter and the optimizer's learning rate as they were, and
\* after every epoch 0 <= wait < patience (the patiences here are >= 1)
C30_FrameCondition ==
  /\ MissingEpochEnd =>
       /\ callback.best = before.best
       /\ callback.wait = before.wait
       /\ PlateauLR = before.lr
  /\ callback.patience >= 1 =>
       (0 <= callback.wait /\ callback.wait < callback.patience)

\* a NaN epoch in the middle of a stagnation: best is finite and wait is 1, both kept
C30_Witness ==
  /\ MissingEpochEnd
  /\ current = NaN
  /\ before.best # POSITIVE_INFINITY
  /\ before.wait = 1
  /\ callback.wait = 1
  /\ callback.best = before.best


\* --------------------------------------------------- one GRUModel training
MaxEpochs == 4                 \* epochs ranges over 1..MaxEpochs

TrainLearningRates == {Undefined, 5000000}
TrainArgs ==
  [X_val : BOOLEAN, y_val : {TRUE}, epochs : 1 .. MaxEpochs,
   earlyStoppingPatience : {Undefined} \cup (1 .. MaxPatience),
   reduceLrPatience : {Undefined} \cup (1 .. MaxPatience),
   reduceLrFactor : {Undefined, 150},
   minLearningRate : {Undefined, 400000000}]

InitTrain ==
  /\ Constructed
  /\ NoData
  /\ tfOptimizers = <<>>
  /\ callback = NoCallback
  /\ earlyStopping = NoEarlyStopping
  /\ fit = NoFit
  /\ current = Undefined
  /\ before = NoBefore
  /\ streak = 0
  /\ lrAtStreak = Undefined

NextTrain ==
  \/ \E lr \in TrainLearningRates :
       /\ model = Null
       /\ build([DefaultBuildConfig EXCEPT !.learningRate = lr])
  \/ \E args \in TrainArgs : fit.pc = "idle" /\ model # Null /\ train(args)
  \/ \E valLoss \in ValLosses(fit) : FitEpoch(valLoss)
  \/ FitReturn

SpecTrain == InitTrain /\ [][NextTrain]_vars

\* model.fit is awaited: the event loop runs every epoch of a fit in flight and
\* resolves the promise once the loop is left
SpecTrainFair ==
  /\ SpecTrain
  /\ WF_vars(\E valLoss \in ValLosses(fit) : FitEpoch(valLoss))
  /\ WF_vars(FitReturn)

\* ------------------------------------------------ properties of a training
\* the learning rate of the optimizer the GRUModel holds
TrainLR == getCurrentLearningRate(tfOptimizers, optimizer)

\* the minLearningRate the latest train() call was given, 1e-5 by default
TrainMinLR == Coalesce(call.args.minLearningRate, DefaultMinLR)

C3_Floor ==
  fit.pc # "idle" /\ call.op = "train" => TrainLR >= Min(fit.lrAtStart, TrainMinLR)

C3_NonIncreasing == fit.pc = "running" => TrainLR' <= TrainLR

\* C3: over a whole training run the learning rate of the optimizer never
\* increases from one epoch to the next and never falls below
\* min(initial learning rate, minLearningRate), whatever the losses and the
\* configured factor, patience and minLearningRate.
C3_LearningRateBounds == [](C3_Floor) /\ [][C3_NonIncreasing]_vars

\* a training that ended with the rate lowered onto the configured floor
C3_Witness ==
  /\ fit.pc = "done"
  /\ call.args.minLearningRate = 400000000
  /\ fit.lrAtStart = DefaultLearningRate
  /\ TrainLR = 400000000

\* a training that began below the floor and kept its rate
C3_BelowFloor ==
  fit.pc = "done" /\ fit.reduceLR /\ fit.lrAtStart < TrainMinLR /\ TrainLR = fit.lrAtStart

ValidationSupplied == call.args.X_val /\ call.args.y_val

C4_Outcome ==
  call.op = "train" =>
    /\ fit.epoch <= fit.epochs
    /\ fit.epochs = call.args.epochs
    /\ result \in {"pending", "Completed", "Stopped"}
    /\ result = "pending" <=> fit.pc = "running"
    /\ fit.pc = "done" => history = fit.epoch
    /\ result = "Completed" => fit.epoch = fit.epochs
    /\ result = "Stopped" => fit.stopTraining /\ fit.epoch < fit.epochs
    /\ fit.stopTraining => ValidationSupplied

C4_Completed ==
  fit.pc = "done" /\ result = "Completed" /\ ~call.args.X_val /\ fit.epoch = MaxEpochs

\* early-stopping states to compare with: a best of 0 is never improved on, a
\* best of +Infinity always is, so at every value some of them fire and some
\* do not
EarlyStoppingStates ==
  [registered : {TRUE}, patience : {1, 2}, minDelta : {MinDelta},
   best : {0, POSITIVE_INFINITY}, wait : {0, 1}]

\* whatever state early stopping is in, the epoch end leaves the plateau
\* callback and the optimizers the same
C5_IgnoresEarlyStopping ==
  fit.pc = "running" /\ fit.reduceLR =>
    \A valLoss \in ValLosses(fit) :
      LET here == CallbacksOnEpochEnd(fit, earlyStopping, callback, tfOptimizers, valLoss)
      IN \A es \in EarlyStoppingStates :
           LET there == CallbacksOnEpochEnd(fit, es, callback, tfOptimizers, valLoss)
           IN here.cb = there.cb /\ here.opts = there.opts

\* an epoch of a fit moves the plateau callback as its own onEpochEnd does on
\* the val_loss early stopping saw
C5_SameStream ==
  fit.pc = "running" /\ fit.reduceLR /\ fit'.epoch = fit.epoch + 1 =>
    LET alone == ReduceLROnEpochEnd(callback, tfOptimizers, current')
    IN /\ callback' = alone.cb
       /\ tfOptimizers' = alone.opts
       /\ earlyStopping' = EarlyStoppingOnEpochEnd(earlyStopping, current').es

\* C5: early stopping and the plateau controller are fed the same val_loss at
\* every epoch end; what the plateau controller does depends on that value and
\* its own best / wait only, never on the state of early stopping; and a run
\* can both lower the learning rate and be stopped early.
C5_Decoupled == [](C5_IgnoresEarlyStopping) /\ [][C5_SameStream]_vars

\* a run whose learning rate was lowered and which early stopping then ended
C5_Witness ==
  /\ fit.pc = "done"
  /\ result = "Stopped"
  /\ fit.reduceLR
  /\ TrainLR < fit.lrAtStart

\* ------------------------------------------------- the GRUModel life cycle
MaxModels == 2                 \* tf.sequential() is called at most this often

\* a configuration build() accepts, and the same with one option replaced
ValidBuildConfig ==
  [gruUnits |-> List(<<8>>), convFilters |-> List(<<4>>), denseUnits |-> List(<<4>>),
   learningRate |-> Undefined]
GruUnitsOptions == {NotAnArray, List(<<>>), List(<<8, 0>>), List(<<-1>>), List(<<NaN>>)}
ConvFiltersOptions == {NotAnArray, List(<<0>>), List(<<4, -1>>), List(<<NaN>>)}
DenseUnitsOptions == {NotAnArray, List(<<0>>), List(<<-1>>), List(<<4, NaN>>)}
BuildConfigs ==
  {ValidBuildConfig}
    \cup {[ValidBuildConfig EXCEPT !.gruUnits = u] : u \in GruUnitsOptions}
    \cup {[ValidBuildConfig EXCEPT !.convFilters = c] : c \in ConvFiltersOptions}
    \cup {[ValidBuildConfig EXCEPT !.denseUnits = d] : d \in DenseUnitsOptions}

\* the train() calls of the life cycle: one with and one without validation data
LifecycleTrainArgs ==
  {[X_val |-> TRUE, y_val |-> TRUE, epochs |-> 2, earlyStoppingPatience |-> 1,
    reduceLrPatience |-> 1, reduceLrFactor |-> Undefined, minLearningRate |-> Undefined],
   [X_val |-> FALSE, y_val |-> FALSE, epochs |-> 1, earlyStoppingPatience |-> Undefined,
    reduceLrPatience |-> Undefined, reduceLrFactor |-> Undefined, minLearningRate |-> Undefined]}
LifecycleLosses == {1, Undefined}

Init == InitTrain

\* calls on one GRUModel, each awaited before the next is made
Next ==
  \/ \E cfg \in BuildConfigs :
       fit.pc # "running" /\ Len(tfModels) < MaxModels /\ build(cfg)
  \/ fit.pc # "running" /\ dispose
  \/ fit.pc # "running" /\ predict
  \/ fit.pc # "running" /\ evaluate
  \/ \E args \in LifecycleTrainArgs : train(args)
  \/ \E valLoss \in ValLosses(fit) \cap LifecycleLosses : FitEpoch(valLoss)
  \/ FitReturn
  \/ Len(tfModels) < MaxModels /\ handleTrainRebuild

Spec == Init /\ [][Next]_vars

\* ------------------------------------------------ properties of the life cycle
\* the step is a call of one of the three guarded methods on a GRUModel
\* without an installed model
GuardedCallNotBuilt ==
  /\ model = Null
  /\ call'.op \in {"train", "predict", "evaluate"}

C6_Guarded ==
  GuardedCallNotBuilt =>
    /\ result' \in NotBuiltErrors
    /\ UNCHANGED <<tfModels, tfOptimizers, model, optimizer, history, initialLearningRate>>
    /\ UNCHANGED <<callback, earlyStopping, fit>>

\* C6: whatever build / dispose / train / predict / evaluate calls came before,
\* a train, predict or evaluate call made while no model is installed fails
\* with a not-built error and leaves the backend models and optimizers, the
\* optimizer field and the training history as they were.
C6_NotBuiltGuard == [][C6_Guarded]_vars

\* predict() after dispose() of a trained model: refused, the backend untouched
C6_Witness ==
  /\ call.op = "predict"
  /\ result = "Error: Model is not built."
  /\ model = Null
  /\ Len(tfModels) > 0
  /\ \A i \in 1 .. Len(tfModels) : tfModels[i].disposed

\* train() before the first build(): refused, no fit started
C6_TrainRefused ==
  /\ call.op = "train"
  /\ result = "Error: Call build() before training the model."
  /\ fit.pc = "idle"
  /\ tfModels = <<>>

\* zero, negative or non-finite
BadSize(v) == v = NaN \/ v <= 0
HasBadSize(list) == \E i \in 1 .. Len(list.items) : BadSize(list.items[i])

\* the layer-size configuration is non-positive or empty
BadLayerSizes(cfg) ==
  \/ ~cfg.gruUnits.isArray
  \/ Len(cfg.gruUnits.items) = 0
  \/ HasBadSize(cfg.gruUnits)
  \/ HasBadSize(cfg.convFilters)
  \/ HasBadSize(cfg.denseUnits)

C7_Rejected ==
  call'.op = "build" /\ BadLayerSizes(call'.args) =>
    /\ result' \in BuildErrors
    /\ model' = Null \/ (model' = model /\ tfModels' = tfModels)
    /\ optimizer' = Null \/ optimizer' = optimizer

C7_GruEntry ==
  /\ call.op = "build"
  /\ HasBadSize(call.args.gruUnits)
  /\ result = "ValueError: units must be a positive integer"
  /\ model = Null

\* the backend models that still hold layers, and the optimizers still alive
LiveModels == {i \in 1 .. Len(tfModels) : ~tfModels[i].disposed /\ tfModels[i].layers > 0}
LiveOptimizers == {i \in 1 .. Len(tfOptimizers) : ~tfOptimizers[i].disposed}

\* C8 as stated: at any time at most one undisposed model and at most one
\* undisposed optimizer exist, whatever build() (throwing ones included),
\* dispose() and app retraining calls were made.
C8_NoLeak == Cardinality(LiveModels) <= 1 /\ Cardinality(LiveOptimizers) <= 1

\* what does hold: the optimizers never leak, and every live model but the
\* installed one is the remainder of a build() that threw
C8_OnlyOptimizers ==
  /\ Cardinality(LiveOptimizers) <= 1
  /\ \A i \in LiveOptimizers : i = optimizer
  /\ model # Null => ~tfModels[model].disposed

\* the app's retraining on its own: dispose, new GRUModel, build with defaults
C8_Retrained ==
  /\ call.op = "handleTrain"
  /\ Len(tfModels) = 2
  /\ LiveModels = {2}

\* the step is a build() that throws on a GRUModel holding a built model
FailedBuildOnBuilt ==
  /\ model # Null
  /\ ~tfModels[model].disposed
  /\ call'.op = "build"
  /\ result' \in BuildErrors

\* C29: a build() that throws a configuration error on a GRUModel that holds a
\* built model leaves that model and its optimizer installed and undisposed
C29_FailedBuildIsAtomic ==
  [][FailedBuildOnBuilt =>
       /\ model' = model
       /\ optimizer' = optimizer
       /\ ~tfModels'[model].disposed
       /\ ~tfOptimizers'[optimizer].disposed]_vars

\* what does hold: the gruUnits test comes before the release, so a rejected
\* gruUnits leaves model and optimizer installed and undisposed
C29_GruUnitsTestIsAtomic ==
  [][(FailedBuildOnBuilt /\ result' = "Error: gruUnits must be a non-empty array") =>
       /\ model' = model
       /\ optimizer' = optimizer
       /\ ~tfModels'[model].disposed
       /\ ~tfOptimizers'[optimizer].disposed]_vars

\* a build() rejected for an entry has left the GRUModel without model and
\* optimizer, the previous ones disposed, and predict() is refused
C29_ModelLost ==
  /\ call.op = "predict"
  /\ result = "Error: Model is not built."
  /\ model = Null
  /\ optimizer = Null
  /\ Len(tfModels) = 2
  /\ tfModels[1].disposed /\ tfModels[1].layers = 4
  /\ tfOptimizers[1].disposed
  /\ history = Null

\* ------------------------------------------------------- the data pipeline
MaxDates == 5                  \* the rows span at most this many dates
MaxWindow == 2                 \* sequenceLength and predictionHorizon range over 1..MaxWindow

Shapes == {"rising", "zigzag"}
Price(shape, d) == IF shape = "rising" THEN d ELSE 1 + (d % 2)

\* none: a close on every date; blank: the close of the second date is blank;
\* norow: no row on the last date; all: every close is blank
CloseGaps == {"none", "blank", "norow", "all"}
\* given: an open on every date; blank: every open is blank
OpenModes == {"given", "blank"}
SymbolPatterns == Shapes \X CloseGaps \X OpenModes

\* the rows of one symbol over dates 1..d (at most one row per symbol and date)
SymbolRows(symbol, d, pattern) ==
  {[date |-> i, symbol |-> symbol,
    open |-> IF pattern[3] = "given" THEN Price(pattern[1], i) ELSE NaN,
    close |-> IF pattern[2] = "all" \/ (pattern[2] = "blank" /\ i = 2)
              THEN NaN ELSE Price(pattern[1], i)] :
     i \in 1 .. (IF pattern[2] = "norow" THEN d - 1 ELSE d)}

RowSets ==
  UNION {{UNION {SymbolRows(s, d, patterns[s]) : s \in 1 .. n} :
            patterns \in [1 .. n -> SymbolPatterns]} :
           d \in 1 .. MaxDates, n \in {1, 2}}

InitData ==
  /\ Constructed
  /\ tfOptimizers = <<>>
  /\ callback = NoCallback
  /\ earlyStopping = NoEarlyStopping
  /\ fit = NoFit
  /\ current = Undefined
  /\ before = NoBefore
  /\ streak = 0
  /\ lrAtStreak = Undefined
  /\ \E sequenceLength \in 1 .. MaxWindow, predictionHorizon \in 1 .. MaxWindow :
       loader = DataLoader(sequenceLength, predictionHorizon, DefaultTrainSplit)
  /\ dataset = NoDataset
  /\ tensors = <<>>
  /\ trainingData = NoDataset
  /\ pending = NoPending
  /\ legacy = NoLegacy
  /\ app = NoApp

\* one DataLoader: a text is parsed once, then the dataset is prepared, by
\* prepareDataset() or by its two steps
NextData ==
  \/ \E rows \in RowSets : loader.rows = {} /\ parseCSV(rows)
  \/ dataset = NoDataset /\ buildFeatureCube
  \/ dataset = NoDataset /\ createWindowedDataset
  \/ dataset = NoDataset /\ prepareDataset

SpecData == InitData /\ [][NextData]_vars

\* ------------------------------------------- properties of the data pipeline
\* D, L, H, the number of symbols and of features per symbol
NumDates == Len(loader.dates)
SeqLen == loader.sequenceLength
Horizon == loader.predictionHorizon
NumSymbols == Len(loader.symbols)
NumFeatures == Len(FEATURE_KEYS)
NumSamples == Len(dataset.sampleDates)

\* createWindowedDataset() has run on the cube of the loaded rows
Windowed ==
  /\ dataset # NoDataset
  /\ loader.rows # {}
  /\ NumDates = Cardinality({r.date : r \in loader.rows})

\* every symbol has a row with an open and a close on every date
NoMissingData ==
  \A s \in {r.symbol : r \in loader.rows}, d \in {r.date : r \in loader.rows} :
    \E r \in loader.rows :
      r.symbol = s /\ r.date = d /\ IsFinite(r.open) /\ IsFinite(r.close)

\* sample k is the window anchored at date index SeqLen - 1 + (k - 1): its
\* date is that of the anchor and its j-th timestep holds, symbol by symbol
\* and feature by feature, the normalised values of date index anchor - SeqLen + j
CoversItsWindow(k) ==
  /\ dataset.sampleDates[k] = loader.dates[SeqLen - 1 + k]
  /\ \A j \in 1 .. SeqLen, s \in 1 .. NumSymbols, f \in 1 .. NumFeatures :
       dataset.sequences[k][j][(s - 1) * NumFeatures + f]
         = loader.normalisedCube[loader.symbols[s]][FEATURE_KEYS[f]][k - 1 + j]

OneSamplePerAnchor ==
  /\ dataset.result = "ok"
  /\ Len(dataset.sequences) = NumDates - SeqLen - Horizon + 1
  /\ Len(dataset.sampleDates) = NumDates - SeqLen - Horizon + 1
  /\ \A k \in 1 .. Len(dataset.sequences) : CoversItsWindow(k)

\* C9 as stated: with no missing data and D >= L + H the dataset has exactly
\* D - L - H + 1 samples, one per anchor L-1 .. D-H-1, each covering the date
\* indices i-L+1 .. i in increasing order.
C9_CountAsStated ==
  Windowed /\ NoMissingData /\ NumDates >= SeqLen + Horizon => OneSamplePerAnchor

\* C9 amended: the same for D >= L + H + 1; for D = L + H the one window is
\* built and the call then throws for want of a second sample.
C9_WindowCount ==
  Windowed /\ NoMissingData =>
    /\ NumDates >= SeqLen + Horizon + 1 => OneSamplePerAnchor
    /\ NumDates = SeqLen + Horizon =>
         dataset.result = "Error: Not enough samples to create a train/test split"

\* two symbols over five dates, L = 2 and H = 1: three samples
C9_Witness ==
  /\ Windowed
  /\ NoMissingData
  /\ NumSymbols = 2
  /\ NumDates = MaxDates
  /\ SeqLen = 2
  /\ Horizon = 1
  /\ Len(dataset.sequences) = MaxDates - 2
  /\ dataset.sequences[1][1] # dataset.sequences[1][2]

\* exactly L + H dates without a gap: refused
C9_SingleWindow ==
  /\ Windowed
  /\ NoMissingData
  /\ NumDates = SeqLen + Horizon
  /\ dataset.result = "Error: Not enough samples to create a train/test split"

\* a value of the window of `anchor`, its close or a close of its horizon is
\* not finite (a date index outside the cube has no finite value)
NotFiniteAt(series, index) == index < 0 \/ index >= Len(series) \/ ~IsFinite(series[index + 1])
WindowHasGap(anchor) ==
  \E s \in 1 .. NumSymbols :
    \/ \E f \in 1 .. NumFeatures, i \in (anchor - SeqLen + 1) .. anchor :
         NotFiniteAt(loader.normalisedCube[loader.symbols[s]][FEATURE_KEYS[f]], i)
    \/ \E i \in anchor .. (anchor + Horizon) :
         NotFiniteAt(loader.featureCube[loader.symbols[s]].Close, i)

WellFormedSample(k) ==
  /\ Len(dataset.sequences[k]) = SeqLen
  /\ \A j \in 1 .. SeqLen :
       /\ Len(dataset.sequences[k][j]) = NumSymbols * NumFeatures
       /\ \A v \in 1 .. Len(dataset.sequences[k][j]) : IsFinite(dataset.sequences[k][j][v])
  /\ Len(dataset.targets[k]) = NumSymbols * Horizon
  /\ \A v \in 1 .. Len(dataset.targets[k]) : dataset.targets[k][v] \in {0, 1}

\* C10: every emitted sample has L timesteps of symbols x features finite
\* values and a label vector of symbols x H entries; sequences, targets and
\* sampleDates have the same length; and no sample is anchored at a date
\* whose window holds a non-finite normalised value, anchor close or future
\* close.
C10_SampleValidity ==
  dataset # NoDataset =>
    /\ Len(dataset.sequences) = Len(dataset.targets)
    /\ Len(dataset.targets) = Len(dataset.sampleDates)
    /\ \A k \in 1 .. Len(dataset.sequences) : WellFormedSample(k)
    /\ \A anchor \in 0 .. (NumDates - 1) :
         WindowHasGap(anchor) =>
           \A k \in 1 .. Len(dataset.sampleDates) :
             dataset.sampleDates[k] # loader.dates[anchor + 1]

\* samples of two symbols, one of them without any open, L = H = 2
C10_Witness ==
  /\ dataset.result = "ok"
  /\ NumSymbols = 2
  /\ SeqLen = 2
  /\ Horizon = 2
  /\ Len(dataset.sequences) >= 2
  /\ \E r \in loader.rows : ~IsFinite(r.open)

\* enough dates, but a symbol without any close: every window is dropped
C10_AllDropped ==
  /\ Windowed
  /\ NumDates >= SeqLen + Horizon + 1
  /\ \A anchor \in 0 .. (NumDates - 1) : WindowHasGap(anchor)
  /\ dataset.result = "Error: Unable to construct any sequences"
  /\ dataset.sampleDates = <<>>

\* the date index (from 0) of the anchor of sample k of the dataset
AnchorOf(k) == CHOOSE i \in 0 .. (NumDates - 1) : loader.dates[i + 1] = dataset.sampleDates[k]

\* the gap-filled, unnormalised close of symbol s at date index i
RawClose(s, i) == loader.featureCube[loader.symbols[s]].Close[i + 1]

\* C12: in every emitted sample with anchor i, for every symbol s in sorted
\* symbol order and every h in 1..H, the label at position s*H + (h-1) (from 0)
\* is 1 if the raw gap-filled Close of s at i+h is strictly greater than the
\* one at i, and 0 otherwise; the normalised cube plays no part.
C12_LabelDefinition ==
  dataset.result = "ok" =>
    /\ \A s \in 1 .. (NumSymbols - 1) : loader.symbols[s] < loader.symbols[s + 1]
    /\ \A k \in 1 .. Len(dataset.targets), s \in 1 .. NumSymbols, h \in 1 .. Horizon :
         dataset.targets[k][(s - 1) * Horizon + h]
           = (IF RawClose(s, AnchorOf(k) + h) > RawClose(s, AnchorOf(k)) THEN 1 ELSE 0)

\* two symbols, H = 2: a sample with a label 1, a label 0 for a fall and a
\* label 0 for two equal closes
C12_Witness ==
  /\ dataset.result = "ok"
  /\ NumSymbols = 2
  /\ Horizon = 2
  /\ \E k \in 1 .. Len(dataset.targets) :
       /\ \E v \in 1 .. 4 : dataset.targets[k][v] = 1
       /\ \E s \in 1 .. 2, h \in 1 .. 2 :
            /\ RawClose(s, AnchorOf(k) + h) < RawClose(s, AnchorOf(k))
            /\ dataset.targets[k][(s - 1) * 2 + h] = 0
       /\ \E s \in 1 .. 2, h \in 1 .. 2 :
            /\ RawClose(s, AnchorOf(k) + h) = RawClose(s, AnchorOf(k))
            /\ dataset.targets[k][(s - 1) * 2 + h] = 0

\* the anchors of the loop whose window, anchor close and future closes are finite
ValidWindows ==
  {anchor \in (SeqLen - 1) .. (NumDates - Horizon - 1) : ~WindowHasGap(anchor)}

Refused ==
  /\ dataset.result \in {"Error: Unable to construct any sequences",
                         "Error: Not enough samples to create a train/test split"}
  /\ dataset.sampleDates = <<>>
  /\ dataset.X_train = Null
  /\ dataset.X_test = Null
  /\ dataset.y_train = Null
  /\ dataset.y_test = Null

\* C15: whenever fewer than 2 windows pass validity (none or one, also when
\* D < L + H) createWindowedDataset fails with an error, returns no dataset
\* and leaves no tensor it allocated undisposed.
C15_InsufficientSamples ==
  dataset # NoDataset /\ Cardinality(ValidWindows) < 2 =>
    /\ Refused
    /\ LiveTensors(tensors) = {}

\* one valid window: X and y were allocated and are disposed
C15_Witness ==
  /\ Windowed
  /\ Cardinality(ValidWindows) = 1
  /\ Refused
  /\ Len(tensors) = 2
  /\ tensors[1].disposed
  /\ tensors[2].disposed
  /\ Len(tensors[1].values) = 1

\* fewer dates than L + H: refused before any tensor is made
C15_TooFewDates ==
  /\ Windowed
  /\ NumDates < SeqLen + Horizon
  /\ Refused
  /\ tensors = <<>>

\* the cube was built from the loaded rows
CubeBuilt == loader.rows # {} /\ NumDates = Cardinality({r.date : r \in loader.rows})

\* no row gives symbol s a finite open (key "Open") or close (key "Close")
AllMissing(s, key) ==
  \A r \in loader.rows :
    r.symbol = loader.symbols[s] => ~IsFinite(IF key = "Open" THEN r.open ELSE r.close)

\* an Open or Close series without any finite value is NaN at every date
\* after the fill
StaysMissing ==
  CubeBuilt =>
    \A s \in 1 .. NumSymbols, key \in {"Open", "Close"} :
      AllMissing(s, key) =>
        \A i \in 1 .. NumDates : loader.featureCube[loader.symbols[s]][key][i] = NaN

\* C17: an Open or Close series of a symbol with no finite value at any date
\* stays entirely missing after gap filling and is propagated as invalid,
\* never as zero: no sample is emitted that holds a value standing for it.
C17_AllMissingIsInvalid ==
  /\ StaysMissing
  /\ CubeBuilt /\ dataset.result = "ok" =>
       \A s \in 1 .. NumSymbols, key \in {"Open", "Close"} : ~AllMissing(s, key)

\* what does hold: the series stays missing in the feature cube, and a
\* symbol without any close yields no sample
C17_CloseIsInvalid ==
  /\ StaysMissing
  /\ CubeBuilt /\ dataset.result = "ok" =>
       \A s \in 1 .. NumSymbols : ~AllMissing(s, "Close")

\* samples whose Open entries of a symbol without any open are all 0
C17_ZeroForOpen ==
  /\ CubeBuilt
  /\ dataset.result = "ok"
  /\ \E s \in 1 .. NumSymbols :
       /\ AllMissing(s, "Open")
       /\ \A i \in 1 .. NumDates : loader.featureCube[loader.symbols[s]].Open[i] = NaN
       /\ \A k \in 1 .. NumSamples, j \in 1 .. SeqLen :
            dataset.sequences[k][j][(s - 1) * NumFeatures + 1] = 0

\* other opens and closes for the rows of one symbol: none at all, ten times
\* the date, or a close on even dates only
Variations == {"blank", "steep", "sparse"}
VariedValue(variation, date, key) ==
  IF variation = "blank" THEN NaN
  ELSE IF variation = "steep" THEN 10 * date
  ELSE IF key = "Close" /\ date % 2 = 1 THEN NaN ELSE 7 - (date % 3)

\* the loaded rows with the opens and closes of symbol b replaced
VariedRows(b, variation) ==
  {IF r.symbol = b
   THEN [r EXCEPT !.open = VariedValue(variation, r.date, "Open"),
                  !.close = VariedValue(variation, r.date, "Close")]
   ELSE r : r \in loader.rows}

\* C18: for two row sets with the same dates and symbols that differ only in
\* the opens and closes of symbol B, the normalised Open, Close, Return,
\* Momentum3 and Volatility5 series built for every other symbol A are the same.
C18_SymbolIndependence ==
  CubeBuilt =>
    \A a \in 1 .. NumSymbols, b \in 1 .. NumSymbols :
      a # b =>
        \A variation \in Variations :
          NormalisedFeatures(SymbolFeatures(VariedRows(loader.symbols[b], variation),
                                            loader.dates, loader.symbols[a]))
            = loader.normalisedCube[loader.symbols[a]]

\* a cube of two symbols over all dates, the first with values that vary
\* and the second with values the variations change
C18_Witness ==
  /\ CubeBuilt
  /\ NumSymbols = 2
  /\ NumDates = MaxDates
  /\ \E i \in 1 .. NumDates : loader.normalisedCube[loader.symbols[1]].Close[i] > 0
  /\ \E i \in 1 .. NumDates : loader.normalisedCube[loader.symbols[1]].Return[i] # 0
  /\ \A variation \in Variations :
       VariedRows(loader.symbols[2], variation) # loader.rows
  /\ NormalisedFeatures(SymbolFeatures(VariedRows(loader.symbols[2], "steep"),
                                       loader.dates, loader.symbols[2]))
       # loader.normalisedCube[loader.symbols[2]]


\* the latest call was buildFeatureCube() on rows that give no date or no symbol
EmptyUniverse ==
  /\ call.op = "buildFeatureCube"
  /\ (Len(loader.dates) = 0 \/ Len(loader.symbols) = 0)

\* C22: buildFeatureCube fails with a data-insufficient error when the row set
\* yields zero dates or zero symbols, instead of producing an empty cube
C22_EmptyUniverseFails == EmptyUniverse => result # "ok"

\* buildFeatureCube() on a loader without rows has returned with an empty cube
C22_EmptyCube ==
  /\ EmptyUniverse
  /\ result = "ok"
  /\ loader.rows = {}
  /\ loader.dates = <<>> /\ loader.symbols = <<>>
  /\ DOMAIN loader.featureCube = {} /\ DOMAIN loader.normalisedCube = {}

\* what does hold: without rows no dataset is returned, because
\* createWindowedDataset finds no window
C22_NoDatasetWithoutRows ==
  (loader.rows = {} /\ dataset.result # "none") =>
     dataset.result = "Error: Unable to construct any sequences"

\* prepareDataset() on a loader without rows has thrown
C22_PrepareRefused ==
  /\ loader.rows = {}
  /\ call = NoCall
  /\ dataset.result = "Error: Unable to construct any sequences"


\* every symbol has a finite Close in at least one of its rows
EveryCloseSeriesFinite == \A s \in 1 .. NumSymbols : ~AllMissing(s, "Close")

\* D - L - H + 1, the number of anchors in [L-1, D-H-1]
FullCount == NumDates - SeqLen - Horizon + 1

\* a sample was emitted for every anchor in [L-1, D-H-1], in anchor order
EveryAnchorEmitted ==
  /\ dataset.result = "ok"
  /\ NumSamples = FullCount
  /\ Len(dataset.sequences) = FullCount
  /\ Len(dataset.targets) = FullCount
  /\ \A k \in 1 .. NumSamples : dataset.sampleDates[k] = loader.dates[SeqLen - 1 + k]

\* C24 as stated: createWindowedDataset either emits a sample for every anchor
\* in [L-1, D-H-1], which happens whenever every symbol has at least one
\* finite Close (and there is an anchor at all), or emits none and throws
C24_AllOrNothingAsStated ==
  Windowed =>
    /\ EveryAnchorEmitted \/ Refused
    /\ (EveryCloseSeriesFinite /\ FullCount >= 1) => EveryAnchorEmitted

\* C24 amended: a sample for every anchor is emitted exactly when every
\* symbol has a finite Close and there are at least two anchors; in every
\* other case none is emitted and the call throws
C24_AllOrNothing ==
  Windowed =>
    /\ EveryAnchorEmitted \/ Refused
    /\ (EveryCloseSeriesFinite /\ FullCount >= 2) => EveryAnchorEmitted
    /\ (~EveryCloseSeriesFinite \/ FullCount < 2) => Refused

\* two symbols with gaps (a blank close, a missing last row, blank opens) and
\* still a sample for each of the anchors
C24_Witness ==
  /\ Windowed
  /\ NumSymbols = 2
  /\ \E r \in loader.rows : ~IsFinite(r.close)
  /\ \E r \in loader.rows : ~IsFinite(r.open)
  /\ Cardinality(loader.rows) < NumSymbols * NumDates
  /\ EveryAnchorEmitted
  /\ NumSamples >= 3

\* every symbol has closes and there is exactly one anchor: nothing is emitted
C24_SingleAnchor ==
  /\ Windowed
  /\ EveryCloseSeriesFinite
  /\ FullCount = 1
  /\ Refused

\* one symbol without any close: nothing is emitted although the other has closes
C24_OneSymbolWithoutClose ==
  /\ Windowed
  /\ NumSymbols = 2
  /\ AllMissing(1, "Close") /\ ~AllMissing(2, "Close")
  /\ FullCount >= 2
  /\ Refused

\* ------------------------------------------------------------ gap filling
MaxSeries == 4                 \* a series has at most this many dates
\* an Open or Close array before the fill: each cell a price, or NaN
SeriesInputs == UNION {[1 .. n -> {1, 2, 3, NaN}] : n \in 0 .. MaxSeries}

\* fillMissingValues(array) on one array of the feature cube
fillSeries(array) ==
  /\ call' = [op |-> "fillMissingValues", args |-> array]
  /\ result' = fillMissingValues(array)
  /\ UNCHANGED <<gruVars, trainVars, plateauHistory, dataVars>>

\* minMaxScale(series) on one array
scaleSeries(series) ==
  /\ call' = [op |-> "minMaxScale", args |-> series]
  /\ result' = minMaxScale(series)
  /\ UNCHANGED <<gruVars, trainVars, plateauHistory, dataVars>>

\* minMaxNormalize(data) of the first DataLoader on one array
normalizeSeries(data) ==
  /\ call' = [op |-> "minMaxNormalize", args |-> data]
  /\ result' = minMaxNormalize(data)
  /\ UNCHANGED <<gruVars, trainVars, plateauHistory, dataVars>>

\* one call on one array
NextFill ==
  \/ call = NoCall /\ \E array \in SeriesInputs : fillSeries(array)
  \/ call = NoCall /\ \E series \in SeriesInputs : scaleSeries(series)
  \/ call = NoCall /\ \E data \in SeriesInputs : normalizeSeries(data)

SpecFill == InitIdle /\ [][NextFill]_vars

Filled == call.op = "fillMissingValues"
FinitePositions(array) == {i \in 1 .. Len(array) : IsFinite(array[i])}

\* C16: after fillMissingValues on a series with at least one finite value
\* every position is finite, the finite positions are unchanged, and a
\* missing position holds the most recent earlier finite value if there is
\* one and otherwise the nearest later finite value.
C16_GapFilling ==
  Filled /\ FinitePositions(call.args) # {} =>
    /\ Len(result) = Len(call.args)
    /\ \A i \in 1 .. Len(result) :
         LET earlier == {j \in FinitePositions(call.args) : j < i}
             later   == {j \in FinitePositions(call.args) : j > i}
         IN /\ IsFinite(result[i])
            /\ IsFinite(call.args[i]) => result[i] = call.args[i]
            /\ ~IsFinite(call.args[i]) /\ earlier # {} =>
                 \E j \in earlier : (\A k \in earlier : k <= j) /\ result[i] = call.args[j]
            /\ ~IsFinite(call.args[i]) /\ earlier = {} =>
                 \E j \in later : (\A k \in later : j <= k) /\ result[i] = call.args[j]

\* Scenario C: [1, NaN, 3] becomes [1, 1, 3]
C16_Witness ==
  /\ Filled
  /\ call.args = <<1, NaN, 3>>
  /\ result = <<1, 1, 3>>

\* leading gaps take the first value there is
C16_LeadingGap ==
  /\ Filled
  /\ call.args = <<NaN, NaN, 2, 3>>
  /\ result = <<2, 2, 2, 3>>


\* the latest call was minMaxScale on a series of finite numbers
ScaledFinite ==
  /\ call.op = "minMaxScale"
  /\ \A i \in 1 .. Len(call.args) : IsFinite(call.args[i])

\* C23: for an all-finite series minMaxScale returns values within [0, 1],
\* the minimum mapped to 0 and the maximum to 1, and a constant series is
\* mapped to all 0 (1 is Scale)
C23_MinMaxRange ==
  ScaledFinite =>
    LET series == call.args
        n      == Len(series)
        isMin(i) == \A j \in 1 .. n : series[i] <= series[j]
        isMax(i) == \A j \in 1 .. n : series[i] >= series[j]
    IN /\ Len(result) = n
       /\ \A i \in 1 .. n :
            /\ 0 <= result[i] /\ result[i] <= Scale
            /\ (isMin(i) /\ ~isMax(i)) => result[i] = 0
            /\ (isMax(i) /\ ~isMin(i)) => result[i] = Scale
            /\ (isMin(i) /\ isMax(i)) => result[i] = 0
            /\ \A j \in 1 .. n : series[i] <= series[j] => result[i] <= result[j]

\* [2, 1, 3, 2] becomes [0.5, 0, 1, 0.5]
C23_Witness ==
  /\ ScaledFinite
  /\ call.args = <<2, 1, 3, 2>>
  /\ result = <<50, 0, 100, 50>>

\* a constant series becomes all 0
C23_Constant ==
  /\ ScaledFinite
  /\ call.args = <<2, 2, 2>>
  /\ result = <<0, 0, 0>>

\* the first DataLoader's minMaxNormalize has no test for min = max: a
\* constant series becomes 0 / 0
C23_LegacyConstant ==
  /\ call.op = "minMaxNormalize"
  /\ call.args = <<2, 2, 2>>
  /\ result = <<NaN, NaN, NaN>>

\* ---------------------------------------------------- the train/test split
MaxSplitDates == 8             \* the rows span at most this many dates

\* rows without a gap: one or two symbols, a row on every date
SplitRowSets ==
  UNION {{UNION {SymbolRows(s, d, <<shapes[s], "none", "given">>) : s \in 1 .. n} :
            shapes \in [1 .. n -> Shapes]} :
           d \in 1 .. MaxSplitDates, n \in {1, 2}}

InitSplit ==
  /\ Constructed
  /\ tfOptimizers = <<>>
  /\ callback = NoCallback
  /\ earlyStopping = NoEarlyStopping
  /\ fit = NoFit
  /\ current = Undefined
  /\ before = NoBefore
  /\ streak = 0
  /\ lrAtStreak = Undefined
  /\ \E sequenceLength \in 1 .. MaxWindow, predictionHorizon \in 1 .. MaxWindow,
        trainSplit \in {-50, 0, 10, 50, DefaultTrainSplit, 100, 150} :
       loader = DataLoader(sequenceLength, predictionHorizon, trainSplit)
  /\ dataset = NoDataset
  /\ tensors = <<>>
  /\ trainingData = NoDataset
  /\ pending = NoPending
  /\ legacy = NoLegacy
  /\ app = NoApp

\* the output of a network that is right in every cell of symbol `oracle`
\* and wrong in every other cell (probabilities 0 and 1, in percent)
OraclePredictions(labels, predictionDays, oracle) ==
  [r \in 1 .. Len(labels) |->
     [c \in 1 .. Len(labels[r]) |->
        IF (c - 1) \div predictionDays + 1 = oracle
        THEN 100 * labels[r][c] ELSE 100 * (1 - labels[r][c])]]

\* one DataLoader with some train fraction (in percent, some outside (0, 1)),
\* a text without gaps; a dataset of prepareDataset() is evaluated once
NextSplit ==
  \/ \E rows \in SplitRowSets : loader.rows = {} /\ parseCSV(rows)
  \/ dataset = NoDataset /\ buildFeatureCube
  \/ dataset = NoDataset /\ createWindowedDataset
  \/ dataset = NoDataset /\ prepareDataset
  \/ /\ dataset.result = "ok"
     /\ dataset.symbols # <<>>
     /\ call.op # "analysePredictions"
     /\ \E oracle \in 0 .. Len(dataset.symbols) :
          evaluateModel(dataset, OraclePredictions(tensors[dataset.y_test].values,
                                                  dataset.predictionDays, oracle))

SpecSplit == InitSplit /\ [][NextSplit]_vars

\* the values of the four returned tensors
TrainX == tensors[dataset.X_train].values
TestX == tensors[dataset.X_test].values
TrainY == tensors[dataset.y_train].values
TestY == tensors[dataset.y_test].values

\* C13: in every returned dataset sampleDates is strictly increasing, train
\* is exactly the samples [0, splitIndex) and test exactly [splitIndex, N), in
\* their order; so every train anchor date is <= every test anchor date and
\* the two index ranges are disjoint and cover all N samples.
C13_ChronologicalSplit ==
  dataset.result = "ok" =>
    /\ \A k \in 1 .. (NumSamples - 1) : dataset.sampleDates[k] < dataset.sampleDates[k + 1]
    /\ Len(TrainX) = dataset.splitIndex
    /\ Len(TrainY) = dataset.splitIndex
    /\ Len(TestX) = NumSamples - dataset.splitIndex
    /\ Len(TestY) = NumSamples - dataset.splitIndex
    /\ \A k \in 1 .. dataset.splitIndex :
         TrainX[k] = dataset.sequences[k] /\ TrainY[k] = dataset.targets[k]
    /\ \A k \in (dataset.splitIndex + 1) .. NumSamples :
         /\ TestX[k - dataset.splitIndex] = dataset.sequences[k]
         /\ TestY[k - dataset.splitIndex] = dataset.targets[k]
    /\ \A i \in 1 .. dataset.splitIndex, j \in (dataset.splitIndex + 1) .. NumSamples :
         dataset.sampleDates[i] <= dataset.sampleDates[j]

\* six samples split 3 : 3, with different samples on the two sides
C13_Witness ==
  /\ dataset.result = "ok"
  /\ NumSamples = 6
  /\ dataset.splitIndex = 3
  /\ Len(TrainX) = 3
  /\ Len(TestX) = 3
  /\ TrainX[3] # TestX[1]
  /\ ~tensors[dataset.X_train].disposed

\* floor(N * p) clamped into [1, N - 1]
Clamped(n, p) ==
  LET raw == (n * p) \div 100
  IN IF raw < 1 THEN 1 ELSE IF raw > n - 1 THEN n - 1 ELSE raw

\* C14: for every N >= 2 and every train fraction p, also p <= 0 and p >= 1,
\* splitIndex is floor(N * p) clamped into [1, N - 1], so that the train and
\* the test partition both hold at least one sample.
C14_SplitIndex ==
  dataset.result = "ok" =>
    /\ NumSamples >= 2
    /\ dataset.splitIndex = Clamped(NumSamples, loader.trainSplit)
    /\ dataset.splitIndex >= 1
    /\ dataset.splitIndex <= NumSamples - 1
    /\ Len(TrainX) >= 1
    /\ Len(TestX) >= 1

\* a fraction of 1.5 on five samples: four for training, one for the test
C14_Witness ==
  /\ dataset.result = "ok"
  /\ loader.trainSplit = 150
  /\ NumSamples = 5
  /\ dataset.splitIndex = 4
  /\ Len(TestX) = 1

\* a negative fraction: one sample for training
C14_Negative ==
  /\ dataset.result = "ok"
  /\ loader.trainSplit < 0
  /\ NumSamples = 3
  /\ dataset.splitIndex = 1


\* the dataset of prepareDataset() has been evaluated
Evaluated == call.op = "analysePredictions" /\ dataset.result = "ok"

\* whether the close of the symbol called name rises from the anchor of test
\* sample r to d + 1 dates later (d from 0), from the symbol's own closes
Rises(name, r, d) ==
  LET closes == loader.featureCube[name].Close
      i      == AnchorOf(dataset.splitIndex + r)
  IN IF closes[i + d + 2] > closes[i + 1] THEN 1 ELSE 0

\* C25: for the symbols list prepareDataset returns, the label column
\* s*H + d that createWindowedDataset writes for symbol s and horizon day d+1
\* is the column analysePredictions attributes to symbols[s] and day d: the
\* actual and predicted flag of (symbols[s], d) come from that column, the
\* actual flag is the rise of that symbol's own close, and a symbol's accuracy
\* is 1 exactly when the predictions in its own columns match its own rises
C25_LabelLayout ==
  Evaluated =>
    LET H == dataset.predictionDays
    IN /\ Len(result.perStockConfusion) = Len(dataset.symbols)
       /\ \A s \in 1 .. Len(dataset.symbols) :
            LET name == result.perStockConfusion[s].symbol
            IN /\ name = dataset.symbols[s]
               /\ \A r \in 1 .. Len(TestY), d \in 0 .. (H - 1) :
                    LET flag == result.perStockTimeline[s][r].perDayFlags[d + 1]
                    IN /\ flag.actual = TestY[r][(s - 1) * H + d + 1]
                       /\ flag.actual = Rises(name, r, d)
                       /\ flag.predicted =
                            (IF call.args.predictionsArray[r][(s - 1) * H + d + 1] >= 50
                             THEN 1 ELSE 0)
               /\ result.perStockAccuracy[s] \in {0, 100}
               /\ result.perStockAccuracy[s] = 100 <=>
                    \A r \in 1 .. Len(TestY), d \in 0 .. (H - 1) :
                      call.args.predictionsArray[r][(s - 1) * H + d + 1]
                        = 100 * Rises(name, r, d)

\* two symbols with different labels, two days, two test samples: the network
\* is right for the first symbol only, and only that symbol has accuracy 1
C25_Witness ==
  /\ Evaluated
  /\ Len(dataset.symbols) = 2
  /\ dataset.predictionDays = 2
  /\ Len(TestY) >= 2
  /\ \E r \in 1 .. Len(TestY) : SubSeq(TestY[r], 1, 2) # SubSeq(TestY[r], 3, 4)
  /\ \E r \in 1 .. Len(TestY) : TestY[r][2] # TestY[r][3]
  /\ result.perStockAccuracy = <<100, 0>>
  /\ result.overallAccuracy = 50

\* ------------------------------------------------ the app's dataset tensors
MaxLoads == 2                  \* loads started in one behaviour

\* one symbol without gaps over just too few dates for a window (14), for
\* one window (15), for two (16) and for three (17)
AppTexts ==
  {Text({}, "CSV file is empty"), Text({}, "No valid data rows were parsed from the CSV")} \cup
  {Text(SymbolRows(1, d, <<"rising", "none", "given">>), "none") :
     d \in (DefaultSequenceLength + DefaultPredictionHorizon - 1)
             .. (DefaultSequenceLength + DefaultPredictionHorizon + 2)}
\* the bundled sample, or no response
SampleTexts ==
  {Text({}, "Unable to fetch sample CSV"),
   Text(SymbolRows(1, DefaultSequenceLength + DefaultPredictionHorizon + 2,
                   <<"zigzag", "none", "given">>), "none")}

NextApp ==
  \/ \E text \in AppTexts : loadDatasetFromFile(text, MaxLoads)
  \/ \E text \in SampleTexts : loadDatasetFromSample(text, MaxLoads)
  \/ \E load \in pending.loads : TextArrives(load)
  \/ resetApplicationState

SpecApp == InitIdle /\ [][NextApp]_vars

\* the four slices of the dataset prepared last
LastSlices ==
  LET made == {i \in DOMAIN tensors : tensors[i].key = "y_test"}
  IN IF made = {} THEN {}
     ELSE LET last == CHOOSE i \in made : \A j \in made : j <= i
          IN {last - 3, last - 2, last - 1, last}

\* C19: after any sequence of file loads, sample loads, failed loads and
\* clears, the tensors of every dataset prepared before were disposed before
\* those of the next were allocated, and the only undisposed dataset tensors
\* are the four slices X_train, X_test, y_train, y_test of the dataset prepared
\* last.
C19_DatasetBuffers ==
  /\ \A i \in DOMAIN tensors : tensors[i].live = {}
  /\ LiveTensors(tensors) \subseteq LastSlices
  /\ LiveTensors(tensors) # {} =>
       /\ trainingData # NoDataset
       /\ LiveTensors(tensors) = {trainingData.X_train, trainingData.X_test,
                                  trainingData.y_train, trainingData.y_test}
       /\ {tensors[i].key : i \in LiveTensors(tensors)}
            = {"X_train", "X_test", "y_train", "y_test"}

\* a second dataset was prepared: the first is disposed, the second is not
C19_Witness ==
  /\ Len(tensors) = 12
  /\ LiveTensors(tensors) = 9 .. 12
  /\ trainingData # NoDataset
  /\ trainingData.X_train = 9
  /\ call.op = "prepareDataset"

\* a load with one window after a dataset: the old tensors are disposed,
\* X and y of the attempt too, and trainingData still names the old ones
C19_FailedLoad ==
  /\ Len(tensors) = 8
  /\ LiveTensors(tensors) = {}
  /\ trainingData # NoDataset
  /\ trainingData.X_train = 3
  /\ call.op = "handleError"

\* ------------------------------------------ the app's training runs
MaxRuns == 2                   \* handleTrain invocations that reach model.train

\* a file with three windows, a file with one (too few for a split), an empty one
RunTexts ==
  {Text({}, "CSV file is empty")} \cup
  {Text(SymbolRows(1, d, <<"rising", "none", "given">>), "none") :
     d \in {DefaultSequenceLength + DefaultPredictionHorizon,
            DefaultSequenceLength + DefaultPredictionHorizon + 2}}

NextRun ==
  \/ \E text \in RunTexts : loadDatasetFromFile(text, MaxLoads)
  \/ loadDatasetFromSample(Text(SymbolRows(1, DefaultSequenceLength + DefaultPredictionHorizon + 2,
                                           <<"zigzag", "none", "given">>), "none"), MaxLoads)
  \/ \E load \in pending.loads : TextArrives(load)
  \/ resetApplicationState
  \/ handleTrain(MaxRuns)
  \/ \E run \in app.runs : FitRejects(run)
  \/ \E run \in app.runs : FitResolves(run)
  \/ \E run \in app.runs : ArraysArrive(run)

SpecRun == InitIdle /\ [][NextRun]_vars

\* C26: under every interleaving of loads, Clear and clicks with a suspended
\* training run, the four tensors and the model handed to the run are not
\* disposed before the run and its evaluation have finished
C26_RunTensorsKept ==
  \A run \in app.runs :
    /\ \A i \in RunTensors(run) : ~tensors[i].disposed
    /\ ~tfModels[run.model].disposed

\* Clear during a fit: the run is still training, its tensors and its model
\* are disposed, and the app holds neither a model nor a dataset
C26_ClearedWhileTraining ==
  \E run \in app.runs :
    /\ run.pc = "training"
    /\ \A i \in RunTensors(run) : tensors[i].disposed
    /\ tfModels[run.model].disposed
    /\ model = Null
    /\ trainingData = NoDataset

\* a load that completes during a fit: the run is still training on the
\* tensors of the dataset that was replaced, all four disposed
C26_ReplacedWhileTraining ==
  \E run \in app.runs :
    /\ run.pc = "training"
    /\ \A i \in RunTensors(run) : tensors[i].disposed
    /\ trainingData # NoDataset
    /\ trainingData.X_train # run.X_train

\* C27: at most one handleTrain invocation is between its start and its
\* finally block, and the train button is disabled while one is
C27_SingleRun ==
  /\ Cardinality(app.runs) <= 1
  /\ app.runs # {} => app.trainDisabled

\* a load that completes during a run enables the train button
C27_ButtonEnabledWhileTraining ==
  \E run \in app.runs : run.pc = "training" /\ ~app.trainDisabled

\* two invocations in flight: the second disposed the model of the first
C27_TwoRuns ==
  \E r1, r2 \in app.runs :
    /\ r1.id < r2.id
    /\ r1.pc = "training"
    /\ tfModels[r1.model].disposed
    /\ ~tfModels[r2.model].disposed

\* ------------------------------------------------ the evaluation report
MaxSamples == 2                \* the test set has at most this many samples

\* a row of probabilities or of labels of a given width: all low, all high,
\* or low and high in turn
PredictionRow(pattern, width) ==
  [c \in 1 .. width |->
     IF pattern = "low" THEN 49 ELSE IF pattern = "high" THEN 50 ELSE 100 * (c % 2)]
LabelRow(pattern, width) ==
  [c \in 1 .. width |->
     IF pattern = "low" THEN 0 ELSE IF pattern = "high" THEN 1 ELSE (c + 1) % 2]

\* the symbol lists a dataset can carry: sorted, without a symbol twice
SymbolLists == {<<>>, <<1>>, <<1, 2>>}

\* one evaluation of a test set
NextAnalysis ==
  /\ call = NoCall
  /\ \E symbols \in SymbolLists, predictionDays \in 1 .. MaxWindow, samples \in 0 .. MaxSamples :
       \E predicted \in [1 .. samples -> {"low", "high", "mixed"}],
          labelled \in [1 .. samples -> {"low", "high", "mixed"}] :
         analysePredictions(
           [r \in 1 .. samples |-> PredictionRow(predicted[r], Len(symbols) * predictionDays)],
           [r \in 1 .. samples |-> LabelRow(labelled[r], Len(symbols) * predictionDays)],
           symbols, predictionDays)

SpecAnalysis == InitIdle /\ [][NextAnalysis]_vars

Analysis == call.op = "analysePredictions"
Confusion(s) == result.perStockConfusion[s]

ReferenceCall(r, s, d) ==
  IF call.args.predictionsArray[r][(s - 1) * call.args.predictionDays + d] >= 50 THEN 1 ELSE 0
ReferenceLabel(r, s, d) ==
  call.args.groundTruthArray[r][(s - 1) * call.args.predictionDays + d]
ReferenceCount(s, called, label) ==
  Cardinality({c \in (1 .. Len(call.args.predictionsArray)) \X (1 .. call.args.predictionDays) :
                 ReferenceCall(c[1], s, c[2]) = called /\ ReferenceLabel(c[1], s, c[2]) = label})

\* C21: with 0/1 labels every cell is called 1 iff its prediction is >= 0.5
\* and counted in the one bucket of its (call, label); a symbol's accuracy is
\* (tp + tn) / (S * H), the overall accuracy the sum of tp + tn over
\* S * symbols * H, and a symbol's timeline has S entries whose correctCount,
\* each in 0..H, sum to tp + tn.  Accuracies are in percent, rounded down.
C21_MatchesReference ==
  Analysis =>
    LET S == Len(call.args.predictionsArray)
        H == call.args.predictionDays
        n == Len(call.args.symbols)
        right == [s \in 1 .. n |-> Confusion(s).tp + Confusion(s).tn]
    IN /\ \A s \in 1 .. n :
            /\ Confusion(s).symbol = call.args.symbols[s]
            /\ Confusion(s).tp = ReferenceCount(s, 1, 1)
            /\ Confusion(s).fp = ReferenceCount(s, 1, 0)
            /\ Confusion(s).fn = ReferenceCount(s, 0, 1)
            /\ Confusion(s).tn = ReferenceCount(s, 0, 0)
            /\ S > 0 => result.perStockAccuracy[s] = (right[s] * 100) \div (S * H)
            /\ Len(result.perStockTimeline[s]) = S
            /\ \A r \in 1 .. S :
                 /\ result.perStockTimeline[s][r].correctCount \in 0 .. H
                 /\ result.perStockTimeline[s][r].total = H
            /\ SumTo([r \in 1 .. S |-> result.perStockTimeline[s][r].correctCount], S)
                 = right[s]
       /\ S * n > 0 => result.overallAccuracy = (SumTo(right, n) * 100) \div (S * n * H)

\* two samples, two symbols, two days: a probability of exactly 0.5 with label
\* 1 is counted as a true positive, and the accuracies are neither 0 nor 1
C21_Witness ==
  /\ Analysis
  /\ Len(call.args.predictionsArray) = 2
  /\ Len(call.args.symbols) = 2
  /\ call.args.predictionDays = 2
  /\ call.args.predictionsArray[1][1] = 50
  /\ call.args.groundTruthArray[1][1] = 1
  /\ Confusion(1).tp > 0
  /\ result.perStockAccuracy[1] \notin {0, 100}
  /\ result.overallAccuracy \notin {0, 100}
  /\ \E r \in 1 .. 2 : result.perStockTimeline[1][r].correctCount = 1

\* without samples or without symbols the accuracies are 0
C21_Empty ==
  (Analysis /\ Len(call.args.predictionsArray) = 0) =>
     /\ result.overallAccuracy = 0
     /\ \A s \in 1 .. Len(call.args.symbols) : result.perStockAccuracy[s] = 0

\* ------------------------------------------------- the two label builders
MaxLegacyDates == 17           \* the file spans 15..MaxLegacyDates dates

\* the closes of a symbol.  none: one on every date; blank: the close of date
\* 14 is blank; late: the first row is that of date 14; norow: no row on the
\* last date; all: every close is blank
LegacySymbolRows(symbol, d, pattern) ==
  {[date |-> i, symbol |-> symbol, open |-> Price(pattern[1], i),
    close |-> IF pattern[2] = "all" \/ (pattern[2] = "blank" /\ i = LegacySequenceLength + 2)
              THEN NaN ELSE Price(pattern[1], i)] :
     i \in (IF pattern[2] = "late" THEN LegacySequenceLength + 2 ELSE 1)
             .. (IF pattern[2] = "norow" THEN d - 1 ELSE d)}

LegacyRowSets ==
  UNION {{UNION {LegacySymbolRows(s, d, patterns[s]) : s \in 1 .. n} :
            patterns \in [1 .. n -> Shapes \X {"none", "blank", "late", "norow", "all"}]} :
           d \in (LegacySequenceLength + LegacyPredictionDays) .. MaxLegacyDates, n \in {1, 2}}

\* one file given to both loaders, each with its defaults: 12 dates, 3 days
NextLegacy ==
  \/ \E rows \in LegacyRowSets : loader.rows = {} /\ parseCSV(rows)
  \/ loader.rows # {} /\ legacy = NoLegacy /\ loadCSV(loader.rows)
  \/ loader.rows # {} /\ dataset = NoDataset /\ prepareDataset
  \/ legacy.rawData # <<>> /\ legacy.result = "none" /\ preprocessData

SpecLegacy == InitIdle /\ [][NextLegacy]_vars

\* every label of createWindowedDataset stands for two closes that are there
WindowedLabelsHaveCloses ==
  dataset.result = "ok" =>
    \A k \in 1 .. Len(dataset.targets), s \in 1 .. NumSymbols, h \in 1 .. Horizon :
      /\ IsFinite(At(loader.featureCube[loader.symbols[s]].Close, AnchorOf(k)))
      /\ IsFinite(At(loader.featureCube[loader.symbols[s]].Close, AnchorOf(k) + h))

\* label h of symbol s of sample k of createSequences is a 0 although the
\* close of the anchor or the close h days later is missing (null or NaN)
DefaultLabel(k, s, h) ==
  /\ legacy.targets[k][(s - 1) * LegacyPredictionDays + h] = 0
  /\ \/ ~IsFinite(At(legacy.featureData[legacy.symbols[s]].Close, legacy.anchors[k]))
     \/ ~IsFinite(At(legacy.featureData[legacy.symbols[s]].Close, legacy.anchors[k] + h))

\* C11: no builder of a dataset puts a 0 into a label vector because the close
\* of the anchor or the future close of that symbol is missing: neither
\* createWindowedDataset nor the older createSequences.
C11_NoDefaultLabels ==
  /\ WindowedLabelsHaveCloses
  /\ legacy.result = "ok" =>
       \A k \in 1 .. Len(legacy.targets), s \in 1 .. Len(legacy.symbols),
          h \in 1 .. LegacyPredictionDays : ~DefaultLabel(k, s, h)

\* createWindowedDataset on its own keeps the promise
C11_WindowedOnly == WindowedLabelsHaveCloses

\* the stricter builder gave samples from a file with a blank close
C11_Witness ==
  /\ dataset.result = "ok"
  /\ Len(dataset.targets) >= 2
  /\ \E r \in loader.rows : ~IsFinite(r.close)

\* createSequences labelled a window whose anchor has no close yet with 0
C11_DefaultedNull ==
  /\ legacy.result = "ok"
  /\ \E s \in 1 .. Len(legacy.symbols) :
       /\ At(legacy.featureData[legacy.symbols[s]].Close, legacy.anchors[1]) = Undefined
       /\ DefaultLabel(1, s, 1)

\* ----------------------------------- the app with the isTraining flag
\* The older StockPredictionApp works on the first DataLoader and on the
\* GRUModel with buildModel().  It never disposes a tensor or a model.  Its
\* page is not part of the sources, so the train button starts in either
\* state.  A click reaches trainModel only while the button is enabled.
UploadEpochs == 50             \* the epochs trainModel asks for
UploadLayers == 4              \* gru, gru, dropout, dense

\* what preprocessData() returned, the slices being the last four tensors made
LegacyReturned(out, base) ==
  [result |-> "ok", X_train |-> base + 3, X_test |-> base + 4,
   y_train |-> base + 5, y_test |-> base + 6,
   symbols |-> out.symbols, dateArray |-> out.dateArray,
   sequenceLength |-> LegacySequenceLength, predictionDays |-> LegacyPredictionDays]

\* variant: the flag is not looked at
TrainsWithoutFlag(data, a) == data = NoDataset

\* if (!this.trainingData || this.isTraining) return
TrainModelReturns(data, a) == data = NoDataset \/ a.isTraining

\* handleFileUpload(file) up to `await this.dataLoader.loadCSV(file)`
handleFileUpload(file, limit) ==
  /\ pending.started < limit
  /\ pending' = [started |-> pending.started + 1,
                 loads |-> pending.loads \cup {[id |-> pending.started + 1,
                                               kind |-> "upload", text |-> file]}]
  /\ call' = [op |-> "handleFileUpload", args |-> pending.started + 1]
  /\ result' = "Loading CSV file..."
  /\ UNCHANGED <<loader, dataset, tensors, trainingData, legacy, app,
                 gruVars, trainVars, plateauHistory>>

\* the FileReader is done.  onerror rejects and the handler only reports it;
\* onload parses the text into rawData, and preprocessData() either returns
\* the dataset, which is kept and enables the train button, or throws
FileRead(load) ==
  /\ load \in pending.loads
  /\ pending' = [pending EXCEPT !.loads = pending.loads \ {load}]
  /\ call' = [op |-> "handleFileUpload", args |-> load.id]
  /\ IF load.text.fault # "none"
     THEN /\ result' = load.text.fault
          /\ UNCHANGED <<legacy, tensors, trainingData, app>>
     ELSE /\ legacy' = Preprocessed(InFileOrder(load.text.rows))
          /\ tensors' = LegacyTensors(tensors, legacy')
          /\ result' = legacy'.result
          /\ IF legacy'.result = "ok"
             THEN /\ trainingData' = LegacyReturned(legacy', Len(tensors))
                  /\ app' = [app EXCEPT !.trainDisabled = FALSE]
             ELSE UNCHANGED <<trainingData, app>>
  /\ UNCHANGED <<loader, dataset, gruVars, trainVars, plateauHistory>>

\* a click on the enabled train button: trainModel() up to
\* `await this.model.train(...)`
trainModel(limit) ==
  /\ ~app.trainDisabled
  /\ IF TrainModelReturns(trainingData, app)
     THEN /\ call' = [op |-> "trainModel", args |-> 0]
          /\ result' = "returned"
          /\ UNCHANGED <<dataVars, gruVars, trainVars, plateauHistory>>
     ELSE LET run == [id |-> app.started + 1, pc |-> "training",
                      X_train |-> trainingData.X_train, y_train |-> trainingData.y_train,
                      X_test |-> trainingData.X_test, y_test |-> trainingData.y_test,
                      model |-> Len(tfModels) + 1, prediction |-> Null]
          IN /\ app.started < limit
             /\ app' = [app EXCEPT !.isTraining = TRUE,
                                   !.trainDisabled = TRUE,
                                   !.started = app.started + 1,
                                   !.runs = app.runs \cup {run}]
             /\ tfModels' = Append(tfModels, [disposed |-> FALSE, layers |-> UploadLayers])
             /\ tfOptimizers' = Append(tfOptimizers,
                                       [disposed |-> FALSE, learningRate |-> DefaultLearningRate])
             /\ model' = Len(tfModels) + 1
             /\ optimizer' = Len(tfOptimizers) + 1
             /\ history' = Null
             /\ call' = [op |-> "trainModel", args |-> app.started + 1]
             /\ result' = "Training model..."
             /\ UNCHANGED <<loader, dataset, tensors, trainingData, pending, legacy,
                            initialLearningRate, trainVars, plateauHistory>>

\* how the rest of trainModel can go: model.train rejects; it resolves and
\* predict or computePerStockAccuracy throws; or the results are displayed
TrainOutcomes == {"Training error: fit", "Training error: evaluation", "Training completed!"}

\* the awaited model.train settles; predict resolves without another handler
\* in between; catch and finally: isTraining = false, the button enabled
TrainingEnds(run, outcome) ==
  /\ run \in app.runs
  /\ app' = [app EXCEPT !.isTraining = FALSE, !.trainDisabled = FALSE,
                        !.runs = app.runs \ {run}]
  /\ history' = IF outcome = "Training error: fit" THEN history ELSE UploadEpochs
  /\ tensors' = IF outcome = "Training completed!"
                THEN Append(tensors, [Tensor("prediction", <<>>, LiveTensors(tensors))
                                        EXCEPT !.disposed = TRUE])
                ELSE tensors
  /\ call' = [op |-> "trainModel", args |-> run.id]
  /\ result' = outcome
  /\ UNCHANGED <<loader, dataset, trainingData, pending, legacy, tfModels, tfOptimizers,
                 model, optimizer, initialLearningRate, trainVars, plateauHistory>>

\* a file with two windows, a file too short for a window, a file that
\* cannot be read
UploadFiles ==
  {Text(LegacySymbolRows(1, d, <<"rising", "none">>), "none") :
     d \in {LegacySequenceLength, LegacySequenceLength + LegacyPredictionDays + 2}}
  \cup {Text({}, "Error: the file could not be read")}

InitUpload ==
  /\ Constructed
  /\ tfOptimizers = <<>>
  /\ callback = NoCallback
  /\ earlyStopping = NoEarlyStopping
  /\ fit = NoFit
  /\ current = Undefined
  /\ before = NoBefore
  /\ streak = 0
  /\ lrAtStreak = Undefined
  /\ loader = DataLoader(DefaultSequenceLength, DefaultPredictionHorizon, DefaultTrainSplit)
  /\ dataset = NoDataset
  /\ tensors = <<>>
  /\ trainingData = NoDataset
  /\ pending = NoPending
  /\ legacy = NoLegacy
  /\ app \in {[NoApp EXCEPT !.trainDisabled = disabled] : disabled \in BOOLEAN}

NextUpload ==
  \/ \E file \in UploadFiles : handleFileUpload(file, MaxLoads)
  \/ \E load \in pending.loads : FileRead(load)
  \/ trainModel(MaxRuns)
  \/ \E run \in app.runs, outcome \in TrainOutcomes : TrainingEnds(run, outcome)

SpecUpload == InitUpload /\ [][NextUpload]_vars

\* a click on the train button (not the end of a run) that finds no dataset,
\* or isTraining set
RefusedClick ==
  /\ call'.op = "trainModel"
  /\ result' \notin TrainOutcomes
  /\ trainingData = NoDataset \/ app.isTraining

\* C28: trainModel does nothing when no dataset is loaded or while isTraining
\* is true, so at most one training run is active at any time, also when an
\* upload has enabled the train button during training; and isTraining is
\* false again after every run, whether it completed or threw
C28_TrainingGuard ==
  /\ [](/\ Cardinality(app.runs) <= 1
        /\ app.isTraining <=> app.runs # {})
  /\ [][RefusedClick => /\ result' = "returned"
                        /\ UNCHANGED <<dataVars, gruVars>>]_vars

\* an upload has enabled the train button during training, and the click
\* that followed started nothing
C28_Witness ==
  /\ app.isTraining
  /\ ~app.trainDisabled
  /\ Cardinality(app.runs) = 1
  /\ call = [op |-> "trainModel", args |-> 0]
  /\ result = "returned"

\* one run has completed and the next has thrown: isTraining is false again
C28_AfterBothOutcomes ==
  /\ app.started = 2
  /\ app.runs = {}
  /\ ~app.isTraining
  /\ \E i \in DOMAIN tensors : tensors[i].key = "prediction"
  /\ result = "Training error: fit"

====
